---- MODULE Spec2Model ----
(***************************************************************************)
(* Write-ahead log of parity-db (src/src/log.rs).                          *)
(*                                                                         *)
(* The model follows the Log structure field by field.  A log file on disk *)
(* is the sequence of entries LogChange::to_file writes (Begin, InsertIndex,*)
(* InsertValue, DropTable, End) and a reader position is an offset into    *)
(* that sequence.  Option<T> is a sequence of length 0 or 1, a HashMap is a *)
(* function on the set of its keys.                                        *)
(*                                                                         *)
(* Threads: one writer (begin_record .. end_record), one flusher           *)
(* (flush_one), one enactor (read_next, LogReader::next, end_read) and one *)
(* cleaner (clean_logs).  end_record and end_read are split where the code *)
(* releases every lock between two accesses of shared state.               *)
(***************************************************************************)
EXTENDS Integers, Sequences, FiniteSets, TLC

\* ---------------------------------------------------------------- bounds
\* SpecRun: records begun, and operations in one record.
MaxRecords == 2
MaxOps == 2
\* Spec: records begun over all runs of the process, operations in one record,
\* and times the directory is opened.
MaxWrites == 3
MaxReplayOps == 1
MaxOpens == 3
\* SpecPool: the log files of the directory that is opened, and the records written after.
PoolFiles == 18
MaxPoolWrites == 1
\* SpecCodec: the records written, each of at most MaxOps entries.
MaxCodecRecords == 1
\* SpecIds: the records written, all of them empty.
MaxIdWrites == 4
\* The lock protocol: the records a file holds at most, and the files left to replay.
MaxLockRecords == 2
MaxLockReplay == 1

\* ------------------------------------------------------ program constants
MAX_LOG_POOL_SIZE == 16
ENTRY_BYTES == 8

\* ------------------------------------------------------------ input sets
IndexTables == {0}
ValueTables == {0}
IndexSlots == {0}
Slots == {0, 1}
Subs == {0, 1}
Chunks == {"c1"}
Payloads == {<<1>>, <<2, 3>>}
DestLens == {1, 2}
\* The writer of Spec writes one value or nothing.
ReplaySlots == {0}
ReplayPayloads == {<<1>>}
MinSizes == {0, 40}
CleanCounts == {1, 2}

\* ------------------------------------------------------------- HashMap
EmptyMap == << >>

MapPut(m, k, v) == [x \in (DOMAIN m) \cup {k} |-> IF x = k THEN v ELSE m[x]]

MapRemove(m, k) == [x \in (DOMAIN m) \ {k} |-> m[x]]

MapExtend_KeepOld(m1, m2) == [x \in (DOMAIN m1) \cup (DOMAIN m2) |-> IF x \in DOMAIN m1 THEN m1[x] ELSE m2[x]]

\* HashMap::extend: entries of m2 replace entries of m1 at the same key.
MapExtend(m1, m2) == [x \in (DOMAIN m1) \cup (DOMAIN m2) |-> IF x \in DOMAIN m2 THEN m2[x] ELSE m1[x]]

\* The (table, slot) pairs of a map of maps.
Keys(m) == UNION {{<<t, i>> : i \in DOMAIN m[t]} : t \in DOMAIN m}

\* HashMap::entry(k).or_default() for a map of maps.
OrDefault(m, k) == IF k \in DOMAIN m THEN m[k] ELSE EmptyMap

RECURSIVE SortedSeq(_)
SortedSeq(S) ==
    IF S = {} THEN << >>
    ELSE LET m == CHOOSE x \in S : \A y \in S : x <= y
         IN  <<m>> \o SortedSeq(S \ {m})

Max(S) == CHOOSE x \in S : \A y \in S : y <= x

RECURSIVE PopCount(_)
PopCount(mask) == IF mask = 0 THEN 0 ELSE (mask % 2) + PopCount(mask \div 2)

RECURSIVE Pow2(_)
Pow2(n) == IF n = 0 THEN 1 ELSE 2 * Pow2(n - 1)

\* mask | (1 << sub) on a u64
BitOr1(mask, sub) == IF (mask \div Pow2(sub)) % 2 = 1 THEN mask ELSE mask + Pow2(sub)

\* ------------------------------------------------------------- variables
VARIABLES
    overlays,        \* LogOverlays: [index, value], table -> slot -> entry
    appending,       \* Option<Appending>: [id, size]
    flushing,        \* Option<Flushing>: [id]
    reading,         \* Option<Reading>: [id, pos]; pos is the file offset of the BufReader
    reading_state,   \* "Reading" or "Idle"
    next_record_id,
    next_log_id,
    dirty,
    log_pool,        \* VecDeque of log ids
    cleanup_queue,   \* VecDeque of log ids
    replay_queue,    \* VecDeque of [id, record_id]
    files,           \* the directory: log id -> sequence of entries
    writer,          \* Option: the LogWriter of the writer thread and its stage
    reader,          \* Option<LogReader>: held by the enactor, keeps `reading` write-locked
    endread,         \* Option: an end_read call between its load and its store
    panics,          \* the panics raised so far in this process
    hist,            \* history: uid -> what happened to the record (not program state)
    epoch,           \* history: number of Log::open calls so far
    lk               \* the lock protocol: who holds which lock, and where each thread is

vars == <<overlays, appending, flushing, reading, reading_state, next_record_id,
          next_log_id, dirty, log_pool, cleanup_queue, replay_queue, files,
          writer, reader, endread, panics, hist, epoch, lk>>

\* The variables of the data model; the steps of the lock protocol leave them alone.
logvars == <<overlays, appending, flushing, reading, reading_state, next_record_id,
          next_log_id, dirty, log_pool, cleanup_queue, replay_queue, files,
          writer, reader, endread, panics, hist, epoch>>

\* A panic ends the process: nothing runs after it until the directory is reopened.
Running == panics = {}

None == << >>
Some(x) == <<x>>
IsSome(o) == o # << >>
IsNone(o) == o = << >>

\* ------------------------------------------------------------ the locks
\* struct Log, lines 393-408: the fields behind a Mutex or an RwLock.
Locks == {"flushing", "reading_state", "reading", "appending", "overlays",
          "log_pool", "cleanup_queue", "replay_queue"}

\* One thread for each caller of the interface; replay_next takes &mut self.
Threads == {"writer", "flusher", "enactor", "cleaner", "clearer", "killer", "replayer"}

\* Log::open for the lock protocol: no lock held, every thread outside the
\* interface, the slots empty and MaxLockReplay files of one record to replay.
\* The slots are kept as the number of records of their file.
LkInit ==
    [held |-> [l \in Locks |-> {}],
     pc |-> [t \in Threads |-> "idle"],
     appending |-> None,
     flushing |-> None,
     reading |-> None,
     reading_state |-> "Idle",
     replay_queue |-> MaxLockReplay,
     panics |-> {}]

\* --------------------------------------------------------- record codec
\* LogChange::to_file: the entries of one record in file order.
IndexTokens(local_index) ==
    LET RECURSIVE Slots1(_, _), Tabs(_)
        Slots1(t, ss) ==
            IF ss = << >> THEN << >>
            ELSE <<[t |-> "InsertIndex", table |-> t, index |-> Head(ss),
                    mask |-> local_index[t][Head(ss)].mask,
                    chunk |-> local_index[t][Head(ss)].chunk]>>
                 \o Slots1(t, Tail(ss))
        Tabs(ts) ==
            IF ts = << >> THEN << >>
            ELSE Slots1(Head(ts), SortedSeq(DOMAIN local_index[Head(ts)])) \o Tabs(Tail(ts))
    IN  Tabs(SortedSeq(DOMAIN local_index))

ValueTokens(local_values) ==
    LET RECURSIVE Slots1(_, _), Tabs(_)
        Slots1(t, ss) ==
            IF ss = << >> THEN << >>
            ELSE <<[t |-> "InsertValue", table |-> t, index |-> Head(ss),
                    data |-> local_values[t][Head(ss)].data]>>
                 \o Slots1(t, Tail(ss))
        Tabs(ts) ==
            IF ts = << >> THEN << >>
            ELSE Slots1(Head(ts), SortedSeq(DOMAIN local_values[Head(ts)])) \o Tabs(Tail(ts))
    IN  Tabs(SortedSeq(DOMAIN local_values))

DropTokens(dropped_tables) ==
    [i \in 1..Len(dropped_tables) |-> [t |-> "DropTable", table |-> dropped_tables[i]]]

\* The bytes of a chunk, one number for each ENTRY_BYTES block.
ChunkCode(chunk) == IF chunk = "c1" THEN 1 ELSE 2

\* The bytes of an entry that go through the checksum, as numbers: the type byte
\* and the header fields, then the payload (which the caller of the LogReader
\* reads with LogReader::read); for the end of a record, the type byte alone.
CrcBytes(tok) ==
    CASE tok.t = "Begin" -> <<1, tok.record_id>>
      [] tok.t = "InsertIndex" ->
            <<2, tok.table, tok.index, tok.mask>> \o [i \in 1..PopCount(tok.mask) |-> ChunkCode(tok.chunk)]
      [] tok.t = "InsertValue" -> <<3, tok.table, tok.index>> \o tok.data
      [] tok.t = "DropTable" -> <<5, tok.table>>
      [] tok.t = "End" -> <<4>>

\* crc32fast::Hasher::update: a checksum that depends on every byte and on the
\* order of the bytes (computed modulo a prime that keeps the products in range).
RECURSIVE Crc32Update(_, _)
Crc32Update(h, bytes) ==
    IF bytes = << >> THEN h
    ELSE Crc32Update((h * 31 + Head(bytes) + 7) % 65521, Tail(bytes))

\* crc32fast::Hasher::new.
Crc32New == 0

RECURSIVE Crc32Of(_, _)
Crc32Of(h, toks) == IF toks = << >> THEN h ELSE Crc32Of(Crc32Update(h, CrcBytes(Head(toks))), Tail(toks))

to_file(log) ==
    LET body == <<[t |-> "Begin", record_id |-> log.record_id, uid |-> log.uid]>>
                \o IndexTokens(log.local_index)
                \o ValueTokens(log.local_values)
                \o DropTokens(log.dropped_tables)
    IN  body \o <<[t |-> "End", checksum |-> Crc32Of(Crc32New, body \o <<[t |-> "End"]>>)]>>

\* Bytes each entry takes in the file.
TokenBytes(tok) ==
    CASE tok.t = "Begin" -> 1 + 8
      [] tok.t = "InsertIndex" -> 1 + 2 + 8 + 8 + PopCount(tok.mask) * ENTRY_BYTES
      [] tok.t = "InsertValue" -> 1 + 2 + 8 + Len(tok.data)
      [] tok.t = "DropTable" -> 1 + 2
      [] tok.t = "End" -> 1 + 4

RECURSIVE SeqBytes(_)
SeqBytes(toks) == IF toks = << >> THEN 0 ELSE TokenBytes(Head(toks)) + SeqBytes(Tail(toks))

\* ----------------------------------------------------------- Log::open
open_log_file_Short(content) == IF Len(content) <= 3 THEN None ELSE Some(content[1].record_id)

\* Log::open_log_file: the first record id of a non-empty file.
open_log_file(content) == IF content = << >> THEN None ELSE Some(content[1].record_id)

\* The orders `logs` can have after sort_by_key(record_id): the sort is stable
\* and read_dir yields the files in an order the platform chooses.
RECURSIVE SortedOrders(_, _)
SortedOrders(ids, disk) ==
    IF ids = {} THEN {<< >>}
    ELSE LET least == {i \in ids : \A j \in ids :
                          open_log_file(disk[i])[1] <= open_log_file(disk[j])[1]}
         IN  UNION {{<<i>> \o q : q \in SortedOrders(ids \ {i}, disk)} : i \in least}

ReplayOrders(disk) == SortedOrders({i \in DOMAIN disk : IsSome(open_log_file(disk[i]))}, disk)

EmptyOverlays == [index |-> EmptyMap, value |-> EmptyMap]

\* ------------------------------------------------------------- LogQuery
Has(m, table, index) == table \in DOMAIN m /\ index \in DOMAIN m[table]

\* impl LogQuery for RwLock<LogOverlays>, lines 61-63: f applied to the chunk.
with_index(ov, table, index) ==
    IF Has(ov.index, table, index) THEN Some(ov.index[table][index].chunk) ELSE None

\* Lines 65-75: the first min(dest.len(), d.len()) bytes of the payload, if any.
value(ov, table, index, dest_len) ==
    IF Has(ov.value, table, index)
    THEN LET d == ov.value[table][index].data
             len == IF dest_len < Len(d) THEN dest_len ELSE Len(d)
         IN  Some(SubSeq(d, 1, len))
    ELSE None

\* impl LogQuery for LogWriter, lines 321-326: the writer's own chunk, else the overlays'.
writer_with_index(w, ov, table, index) ==
    IF Has(w.local_index, table, index)
    THEN Some(w.local_index[table][index].chunk)
    ELSE with_index(ov, table, index)

writer_value_SharedFirst(w, ov, table, index, dest_len) ==
    IF Has(ov.value, table, index)
    THEN value(ov, table, index, dest_len)
    ELSE IF Has(w.local_values, table, index)
         THEN LET d == w.local_values[table][index].data
                  len == IF dest_len < Len(d) THEN dest_len ELSE Len(d)
              IN  Some(SubSeq(d, 1, len))
         ELSE None

\* Lines 328-337: the writer's own payload, else the overlays'.
writer_value(w, ov, table, index, dest_len) ==
    IF Has(w.local_values, table, index)
    THEN LET d == w.local_values[table][index].data
             len == IF dest_len < Len(d) THEN dest_len ELSE Len(d)
         IN  Some(SubSeq(d, 1, len))
    ELSE value(ov, table, index, dest_len)

Init ==
    /\ overlays = EmptyOverlays
    /\ appending = None
    /\ flushing = None
    /\ reading = None
    /\ reading_state = "Idle"
    /\ next_record_id = 1
    /\ next_log_id = 0
    /\ dirty = TRUE
    /\ log_pool = << >>
    /\ cleanup_queue = << >>
    /\ replay_queue = << >>
    /\ files = EmptyMap
    /\ writer = None
    /\ reader = None
    /\ endread = None
    /\ panics = {}
    /\ hist = << >>
    /\ epoch = 1
    /\ lk = LkInit

\* The process stops (every thread with it) and the directory is opened again.
Open ==
    /\ epoch < MaxOpens
    /\ \E q \in ReplayOrders(files) :
          LET ids == {q[i] : i \in DOMAIN q}
          IN  /\ files' = [i \in ids |-> files[i]]
              /\ replay_queue' = [i \in DOMAIN q |->
                                    [id |-> q[i], record_id |-> open_log_file(files[q[i]])[1]]]
              /\ next_log_id' = IF ids = {} THEN 0 ELSE Max(ids) + 1
    /\ overlays' = EmptyOverlays
    /\ appending' = None
    /\ flushing' = None
    /\ reading' = None
    /\ reading_state' = "Idle"
    /\ next_record_id' = 1
    /\ dirty' = TRUE
    /\ log_pool' = << >>
    /\ cleanup_queue' = << >>
    /\ writer' = None
    /\ reader' = None
    /\ endread' = None
    /\ panics' = {}
    /\ epoch' = epoch + 1
    /\ UNCHANGED hist
    /\ UNCHANGED lk

\* ------------------------------------------------------------ LogWriter
begin_record(max_records) ==
    /\ Running
    /\ IsNone(writer)
    /\ Len(hist) < max_records
    /\ LET uid == Len(hist) + 1
       IN  /\ writer' = Some([record_id |-> next_record_id, uid |-> uid,
                              local_index |-> EmptyMap, local_values |-> EmptyMap,
                              dropped_tables |-> << >>, nops |-> 0, pc |-> "open"])
           /\ hist' = Append(hist, [record_id |-> next_record_id, epoch |-> epoch,
                                    stage |-> "begun", index |-> EmptyMap, values |-> EmptyMap,
                                    ikeys |-> {}, vkeys |-> {}, dropped |-> << >>, acquired |-> None,
                  enacted_in |-> 0])
    /\ next_record_id' = next_record_id + 1
    /\ UNCHANGED <<overlays, appending, flushing, reading, reading_state, next_log_id,
                   dirty, log_pool, cleanup_queue, replay_queue, files, reader, endread,
                   panics, epoch>>
    /\ UNCHANGED lk

CanInsert(max_ops) == Running /\ IsSome(writer) /\ writer[1].pc = "open" /\ writer[1].nops < max_ops

insert_index(max_ops, tables, slots) ==
    /\ CanInsert(max_ops)
    /\ \E table \in tables, index \in slots, sub \in Subs, data \in Chunks :
          LET w == writer[1]
              m == OrDefault(w.local_index, table)
              e == IF index \in DOMAIN m
                   THEN [rid |-> w.record_id, mask |-> BitOr1(m[index].mask, sub), chunk |-> data]
                   ELSE [rid |-> w.record_id, mask |-> Pow2(sub), chunk |-> data]
          IN  writer' = Some([w EXCEPT !.local_index = MapPut(w.local_index, table, MapPut(m, index, e)),
                                       !.nops = w.nops + 1])
    /\ UNCHANGED <<overlays, appending, flushing, reading, reading_state, next_record_id,
                   next_log_id, dirty, log_pool, cleanup_queue, replay_queue, files,
                   reader, endread, panics, hist, epoch>>
    /\ UNCHANGED lk

insert_value(max_ops, tables, slots, payloads) ==
    /\ CanInsert(max_ops)
    /\ \E table \in tables, index \in slots, data \in payloads :
          LET w == writer[1]
              m == OrDefault(w.local_values, table)
              e == [rid |-> w.record_id, data |-> data]
          IN  writer' = Some([w EXCEPT !.local_values = MapPut(w.local_values, table, MapPut(m, index, e)),
                                       !.nops = w.nops + 1])
    /\ UNCHANGED <<overlays, appending, flushing, reading, reading_state, next_record_id,
                   next_log_id, dirty, log_pool, cleanup_queue, replay_queue, files,
                   reader, endread, panics, hist, epoch>>
    /\ UNCHANGED lk

drop_table(max_ops, tables) ==
    /\ CanInsert(max_ops)
    /\ \E id \in tables :
          LET w == writer[1]
          IN  writer' = Some([w EXCEPT !.dropped_tables = Append(w.dropped_tables, id),
                                       !.nops = w.nops + 1])
    /\ UNCHANGED <<overlays, appending, flushing, reading, reading_state, next_record_id,
                   next_log_id, dirty, log_pool, cleanup_queue, replay_queue, files,
                   reader, endread, panics, hist, epoch>>
    /\ UNCHANGED lk

\* ----------------------------------------------------------- end_record
\* std::fs::OpenOptions::create(true) on a path: an existing file is opened as it is.
CreateFile(disk, id) == IF id \in DOMAIN disk THEN disk ELSE MapPut(disk, id, << >>)

pop_front_Keep(pool) == pool

\* Line 527: VecDeque::pop_front takes the first file out of the pool.
pop_front(pool) == Tail(pool)

\* Lines 522-543: the assertion, then the acquisition of an append file.
\* History only: the record whose end_record acquired the file notes its id.
end_record_acquire ==
    /\ Running
    /\ IsSome(writer)
    /\ writer[1].pc = "open"
    /\ IF writer[1].record_id + 1 # next_record_id
       THEN /\ panics' = panics \cup {"end_record_assert"}
            /\ writer' = None
            /\ UNCHANGED <<appending, log_pool, next_log_id, files>>
       ELSE /\ writer' = Some([writer[1] EXCEPT !.pc = "append"])
            /\ IF IsNone(appending)
               THEN IF log_pool # << >>
                    THEN /\ appending' = Some([id |-> Head(log_pool), size |-> 0])
                         /\ log_pool' = pop_front(log_pool)
                         /\ UNCHANGED <<next_log_id, files>>
                    ELSE /\ appending' = Some([id |-> next_log_id, size |-> 0])
                         /\ next_log_id' = next_log_id + 1
                         /\ files' = CreateFile(files, next_log_id)
                         /\ UNCHANGED log_pool
               ELSE UNCHANGED <<appending, log_pool, next_log_id, files>>
            /\ UNCHANGED panics
    /\ hist' = IF writer[1].record_id + 1 = next_record_id /\ IsNone(appending)
               THEN [hist EXCEPT ![writer[1].uid].acquired =
                        Some(IF log_pool # << >> THEN Head(log_pool) ELSE next_log_id)]
               ELSE hist
    /\ UNCHANGED <<overlays, flushing, reading, reading_state, next_record_id, dirty,
                   cleanup_queue, replay_queue, reader, endread, epoch>>
    /\ UNCHANGED lk

MergeOverlay_Skip(shared, local) == shared

\* Lines 547-557: the writer's maps are merged into the shared overlay.
MergeOverlay(shared, local) ==
    [t \in (DOMAIN shared) \cup (DOMAIN local) |->
        IF t \in DOMAIN local THEN MapExtend(OrDefault(shared, t), local[t]) ELSE shared[t]]

\* Lines 544-567: serialize into the append file, publish, account.
end_record_write ==
    /\ Running
    /\ IsSome(writer)
    /\ writer[1].pc = "append"
    /\ IF IsNone(appending)
       THEN /\ panics' = panics \cup {"end_record_unwrap"}
            /\ UNCHANGED <<files, overlays, appending, dirty, hist>>
       ELSE LET log == writer[1]
                toks == to_file(log)
                a == appending[1]
            IN  /\ files' = [files EXCEPT ![a.id] = files[a.id] \o toks]
                /\ overlays' = [index |-> MergeOverlay(overlays.index, log.local_index),
                                value |-> MergeOverlay(overlays.value, log.local_values)]
                /\ appending' = Some([a EXCEPT !.size = a.size + SeqBytes(toks)])
                /\ dirty' = TRUE
                /\ hist' = [hist EXCEPT ![log.uid] =
                              [@ EXCEPT !.stage = "written", !.index = log.local_index,
                                        !.values = log.local_values,
                                        !.ikeys = Keys(log.local_index),
                                        !.vkeys = Keys(log.local_values),
                                        !.dropped = log.dropped_tables]]
                /\ UNCHANGED panics
    /\ writer' = None
    /\ UNCHANGED <<flushing, reading, reading_state, next_record_id, next_log_id,
                   log_pool, cleanup_queue, replay_queue, reader, endread, epoch>>
    /\ UNCHANGED lk

\* ------------------------------------------------------------- read_next
EnactorIdle == Running /\ IsNone(reader) /\ IsNone(endread)

\* Lines 122-129 and 186-193: what is read goes through the checksum in validate mode.
Crc32Read(validate, h, tok) == IF validate THEN Crc32Update(h, CrcBytes(tok)) ELSE h

CrcOk_Always(validate, checksum, expected) == TRUE

\* Lines 159-169: the comparison at the end of a record.
CrcOk(validate, checksum, expected) == ~validate \/ checksum = expected

\* Lines 715-742.  Files hold whole records and every reader is read up to its
\* EndRecord, so the entry at the reader position is a Begin or the end of file.
read_next(validates) ==
    /\ EnactorIdle
    /\ reading_state = "Reading"
    /\ IsSome(reading)
    /\ LET r == reading[1]
           f == files[r.id]
       IN  IF r.pos > Len(f)
           THEN /\ reading_state' = "Idle"
                /\ UNCHANGED <<reader, reading>>
           ELSE /\ f[r.pos].t = "Begin"
                /\ \E validate \in validates :
                      reader' = Some([record_id |-> f[r.pos].record_id, uid |-> f[r.pos].uid,
                                      cleared |-> [index |-> << >>, values |-> << >>],
                                      ended |-> FALSE, validate |-> validate,
                                      crc32 |-> Crc32Read(validate, Crc32New, f[r.pos]),
                                      actions |-> <<[a |-> "BeginRecord"]>>, err |-> FALSE])
                /\ reading' = Some([r EXCEPT !.pos = r.pos + 1])
                /\ UNCHANGED reading_state
    /\ UNCHANGED <<overlays, appending, flushing, next_record_id, next_log_id, dirty,
                   log_pool, cleanup_queue, replay_queue, files, writer, endread,
                   panics, hist, epoch>>
    /\ UNCHANGED lk

\* Lines 716-726: nothing to enact.
read_next_none ==
    /\ EnactorIdle
    /\ reading_state # "Reading" \/ IsNone(reading)
    /\ UNCHANGED vars

\* LogReader::next, lines 121-184, called by the enactor until EndRecord.
reader_next ==
    /\ Running
    /\ IsSome(reader)
    /\ ~reader[1].ended
    /\ ~reader[1].err
    /\ LET r == reading[1]
           tok == files[r.id][r.pos]
           rd == reader[1]
           crc == Crc32Read(rd.validate, rd.crc32, tok)
       IN  /\ reading' = Some([r EXCEPT !.pos = r.pos + 1])
           /\ reader' = Some(
                CASE tok.t = "Begin" ->
                        [rd EXCEPT !.record_id = tok.record_id, !.uid = tok.uid, !.crc32 = crc,
                                   !.actions = Append(@, [a |-> "BeginRecord"])]
                  [] tok.t = "InsertIndex" ->
                        [rd EXCEPT !.cleared.index = Append(@, <<tok.table, tok.index>>),
                                   !.crc32 = crc,
                                   !.actions = Append(@, [a |-> "InsertIndex", table |-> tok.table,
                                                          index |-> tok.index])]
                  [] tok.t = "InsertValue" ->
                        [rd EXCEPT !.cleared.values = Append(@, <<tok.table, tok.index>>),
                                   !.crc32 = crc,
                                   !.actions = Append(@, [a |-> "InsertValue", table |-> tok.table,
                                                          index |-> tok.index])]
                  [] tok.t = "DropTable" ->
                        [rd EXCEPT !.crc32 = crc,
                                   !.actions = Append(@, [a |-> "DropTable", table |-> tok.table])]
                  [] tok.t = "End" ->
                        IF CrcOk(rd.validate, tok.checksum, crc)
                        THEN [rd EXCEPT !.ended = TRUE, !.crc32 = Crc32New,
                                        !.actions = Append(@, [a |-> "EndRecord"])]
                        ELSE [rd EXCEPT !.err = TRUE, !.crc32 = Crc32New])
    /\ UNCHANGED <<overlays, appending, flushing, reading_state, next_record_id,
                   next_log_id, dirty, log_pool, cleanup_queue, replay_queue, files,
                   writer, endread, panics, hist, epoch>>
    /\ UNCHANGED lk

\* The caller drops a LogReader that returned the Corruption error of line 168.
reader_abandon ==
    /\ Running
    /\ IsSome(reader)
    /\ reader[1].err
    /\ reader' = None
    /\ UNCHANGED <<overlays, appending, flushing, reading, reading_state, next_record_id,
                   next_log_id, dirty, log_pool, cleanup_queue, replay_queue, files,
                   writer, endread, panics, hist, epoch>>
    /\ UNCHANGED lk

\* -------------------------------------------------------------- end_read
\* History only: end_read has been called for the record.
Called(stage) == IF stage = "enacted" THEN "enacted" ELSE "called"

ShouldAdvance_Strict(record_id, counter) == record_id > counter

\* Line 571: the comparison of the record id with the loaded counter.
ShouldAdvance(record_id, counter) == record_id >= counter

\* LogReader::drain (lines 195-197), then line 571 of end_read: the load and compare.
end_read_load ==
    /\ Running
    /\ IsSome(reader)
    /\ reader[1].ended
    /\ endread' = Some([cleared |-> reader[1].cleared, record_id |-> reader[1].record_id,
                        uid |-> reader[1].uid,
                        store |-> ShouldAdvance(reader[1].record_id, next_record_id)])
    /\ reader' = None
    /\ hist' = [hist EXCEPT ![reader[1].uid].stage = Called(@)]
    /\ UNCHANGED <<overlays, appending, flushing, reading, reading_state, next_record_id,
                   next_log_id, dirty, log_pool, cleanup_queue, replay_queue, files,
                   writer, panics, epoch>>
    /\ UNCHANGED lk

RECURSIVE ClearEntries_AnyId(_, _, _)
ClearEntries_AnyId(ov, cleared, record_id) ==
    IF cleared = << >> THEN ov
    ELSE LET table == Head(cleared)[1]
             index == Head(cleared)[2]
             ov1 == IF table \in DOMAIN ov /\ index \in DOMAIN ov[table]
                    THEN [ov EXCEPT ![table] = MapRemove(@, index)]
                    ELSE ov
         IN  ClearEntries_AnyId(ov1, Tail(cleared), record_id)

ClearEntries_Keep(ov, cleared, record_id) == ov

\* Lines 575-598: one overlay map after the loop over a clear list.
RECURSIVE ClearEntries(_, _, _)
ClearEntries(ov, cleared, record_id) ==
    IF cleared = << >> THEN ov
    ELSE LET table == Head(cleared)[1]
             index == Head(cleared)[2]
             ov1 == IF /\ table \in DOMAIN ov
                       /\ index \in DOMAIN ov[table]
                       /\ ov[table][index].rid = record_id
                    THEN [ov EXCEPT ![table] = MapRemove(@, index)]
                    ELSE ov
         IN  ClearEntries(ov1, Tail(cleared), record_id)

\* Line 600: overlays.index.retain(non-empty).
RetainNonEmpty(ov) == [t \in {x \in DOMAIN ov : DOMAIN ov[x] # {}} |-> ov[t]]

\* Lines 572-600: the store, then the eviction.
end_read_store ==
    /\ Running
    /\ IsSome(endread)
    /\ LET e == endread[1]
       IN  /\ next_record_id' = IF e.store THEN e.record_id + 1 ELSE next_record_id
           /\ overlays' = [index |-> RetainNonEmpty(ClearEntries(overlays.index, e.cleared.index, e.record_id)),
                           value |-> ClearEntries(overlays.value, e.cleared.values, e.record_id)]
           /\ hist' = [hist EXCEPT ![e.uid] =
                         [@ EXCEPT !.stage = "enacted", !.index = EmptyMap, !.values = EmptyMap,
                                   !.enacted_in = epoch]]
    /\ endread' = None
    /\ UNCHANGED <<appending, flushing, reading, reading_state, next_log_id, dirty,
                   log_pool, cleanup_queue, replay_queue, files, writer, reader,
                   panics, epoch>>
    /\ UNCHANGED lk

\* ------------------------------------------------------------- flush_one
MustWait_Never == FALSE

\* Lines 608-614: with a file in the flushing slot, wait while the reader runs.
MustWait == IsSome(flushing) /\ reading_state = "Reading"

Activate_Keep(fl, rd) == rd

\* Lines 626-635: the file taken from the flushing slot becomes the reading
\* file, at offset 0.
Activate(fl, rd) == IF IsSome(fl) THEN Some([id |-> fl[1].id, pos |-> 1]) ELSE rd

\* Lines 603-662.  With a file in the flushing slot the call waits on
\* done_reading_cv until the reading state is Idle (lines 611-614); the action is
\* the call from the moment it can run to its return.
flush_one ==
    /\ Running
    /\ ~MustWait
    /\ \E min_size \in MinSizes :
          LET moved == IsSome(flushing) /\ IsSome(reading)
              cleanup1 == IF moved THEN Append(cleanup_queue, reading[1].id) ELSE cleanup_queue
              reading1 == Activate(flushing, reading)
              state1 == IF IsSome(flushing) THEN "Reading" ELSE reading_state
              flushing1 == None
              cur_size == IF IsSome(appending) THEN appending[1].size ELSE 0
              rotate == cur_size > 0 /\ cur_size > min_size
          IN  /\ cleanup_queue' = cleanup1
              /\ reading' = reading1
              /\ reading_state' = state1
              /\ flushing' = IF rotate THEN Some([id |-> appending[1].id]) ELSE flushing1
              /\ appending' = IF rotate THEN None ELSE appending
    /\ UNCHANGED <<overlays, next_record_id, next_log_id, dirty, log_pool, replay_queue,
                   files, writer, reader, endread, panics, hist, epoch>>
    /\ UNCHANGED lk

\* ------------------------------------------------------------ history
\* The offsets in a file at which the record u begins.
BeginsOf(f, u) == {i \in DOMAIN files[f] : files[f][i].t = "Begin" /\ files[f][i].uid = u}

\* History only: the written records of log f from offset pos on leave the
\* pipeline without having been handed to the enactor.
Discard(f, pos) ==
    [u \in DOMAIN hist |->
        IF hist[u].stage \in {"written", "called"} /\ \E i \in BeginsOf(f, u) : i >= pos
        THEN [hist[u] EXCEPT !.stage = "discarded"] ELSE hist[u]]

\* ----------------------------------------------------------- replay_next
\* &mut self: no LogWriter and no LogReader borrows the log during the call.
Exclusive == Running /\ IsNone(writer) /\ IsNone(reader) /\ IsNone(endread)

\* Lines 673-684: what the call returns, Some(log id) or None.
replay_next_returns == IF replay_queue # << >> THEN Some(Head(replay_queue).id) ELSE None

replay_next_NoCleanup ==
    /\ Exclusive
    /\ IF replay_queue # << >>
       THEN /\ reading' = Some([id |-> Head(replay_queue).id, pos |-> 1])
            /\ replay_queue' = Tail(replay_queue)
            /\ reading_state' = "Reading"
       ELSE /\ reading' = None
            /\ reading_state' = "Idle"
            /\ UNCHANGED replay_queue
    /\ hist' = IF IsSome(reading) THEN Discard(reading[1].id, reading[1].pos) ELSE hist
    /\ UNCHANGED <<overlays, appending, flushing, next_record_id, next_log_id, dirty,
                   log_pool, cleanup_queue, files, writer, reader, endread, panics, epoch>>
    /\ UNCHANGED lk

\* Lines 664-685.
replay_next ==
    /\ Exclusive
    /\ cleanup_queue' = IF IsSome(reading) THEN Append(cleanup_queue, reading[1].id) ELSE cleanup_queue
    /\ IF replay_queue # << >>
       THEN /\ reading' = Some([id |-> Head(replay_queue).id, pos |-> 1])
            /\ replay_queue' = Tail(replay_queue)
            /\ reading_state' = "Reading"
       ELSE /\ reading' = None
            /\ reading_state' = "Idle"
            /\ UNCHANGED replay_queue
    /\ hist' = IF IsSome(reading) THEN Discard(reading[1].id, reading[1].pos) ELSE hist
    /\ UNCHANGED <<overlays, appending, flushing, next_record_id, next_log_id, dirty,
                   log_pool, files, writer, reader, endread, panics, epoch>>
    /\ UNCHANGED lk

\* ------------------------------------------------------------ clean_logs
\* sort_by_key on log ids (stable insertion into a sorted sequence).
RECURSIVE InsertSorted(_, _)
InsertSorted(seq, x) ==
    IF seq = << >> THEN <<x>>
    ELSE IF x < Head(seq) THEN <<x>> \o seq
    ELSE <<Head(seq)>> \o InsertSorted(Tail(seq), x)

SortIds_Unsorted(seq) == seq

RECURSIVE SortIds(_)
SortIds(seq) ==
    IF seq = << >> THEN << >>
    ELSE InsertSorted(SortIds(SubSeq(seq, 1, Len(seq) - 1)), seq[Len(seq)])

SeqRange(seq) == {seq[i] : i \in DOMAIN seq}

TrimPool_Never(pool) == pool

\* Lines 701-707: pool.drain(MAX_LOG_POOL_SIZE..), the files drained are deleted.
TrimPool(pool) == IF Len(pool) > MAX_LOG_POOL_SIZE THEN SubSeq(pool, 1, MAX_LOG_POOL_SIZE) ELSE pool

\* Lines 687-709.  VecDeque::drain(0..count) panics when count exceeds the length.
clean_logs ==
    /\ Running
    /\ \E count \in CleanCounts :
          IF count > Len(cleanup_queue)
          THEN /\ panics' = panics \cup {"clean_logs_drain"}
               /\ UNCHANGED <<cleanup_queue, log_pool, files>>
          ELSE LET cleaned == SubSeq(cleanup_queue, 1, count)
                   pool == SortIds(log_pool \o cleaned)
                   kept == TrimPool(pool)
                   removed == SeqRange(pool) \ SeqRange(kept)
               IN  /\ cleanup_queue' = SubSeq(cleanup_queue, count + 1, Len(cleanup_queue))
                   /\ log_pool' = kept
                   /\ files' = [i \in (DOMAIN files) \ removed |->
                                  IF i \in SeqRange(cleaned) THEN << >> ELSE files[i]]
                   /\ UNCHANGED panics
    /\ UNCHANGED <<overlays, appending, flushing, reading, reading_state, next_record_id,
                   next_log_id, dirty, replay_queue, writer, reader, endread, hist, epoch>>
    /\ UNCHANGED lk

\* ----------------------------------------------------- clear_replay_logs
drop_log_Keep(disk, ids) == disk

\* Lines 482-487, for each of the ids: std::fs::remove_file.
drop_log(disk, ids) == [i \in (DOMAIN disk) \ ids |-> disk[i]]

\* Lines 489-511.  reading.write() needs the LogReader gone.
clear_replay_logs ==
    /\ Running
    /\ IsNone(reader)
    /\ LET gone == (IF IsSome(reading) THEN {reading[1].id} ELSE {})
                   \cup {replay_queue[i].id : i \in DOMAIN replay_queue}
       IN  files' = drop_log(files, gone)
    /\ reading' = None
    /\ replay_queue' = << >>
    /\ overlays' = EmptyOverlays
    /\ reading_state' = "Idle"
    /\ dirty' = FALSE
    /\ hist' = [u \in DOMAIN hist |->
                  IF /\ hist[u].stage \in {"written", "called"}
                     /\ \/ IsSome(reading) /\ BeginsOf(reading[1].id, u) # {}
                        \/ \E k \in DOMAIN replay_queue : BeginsOf(replay_queue[k].id, u) # {}
                  THEN [hist[u] EXCEPT !.stage = "discarded"] ELSE hist[u]]
    /\ UNCHANGED <<appending, flushing, next_record_id, next_log_id, log_pool,
                   cleanup_queue, writer, reader, endread, panics, epoch>>
    /\ UNCHANGED lk

\* ------------------------------------------------------------- kill_logs
\* Lines 748-759.
kill_logs ==
    /\ Running
    /\ IsNone(reader)
    /\ LET gone == SeqRange(log_pool) \cup (IF IsSome(reading) THEN {reading[1].id} ELSE {})
       IN  files' = [i \in (DOMAIN files) \ gone |-> files[i]]
    /\ log_pool' = << >>
    /\ reading' = None
    /\ hist' = IF IsSome(reading) THEN Discard(reading[1].id, 1) ELSE hist
    /\ UNCHANGED <<overlays, appending, flushing, reading_state, next_record_id,
                   next_log_id, dirty, cleanup_queue, replay_queue, writer, reader,
                   endread, panics, epoch>>
    /\ UNCHANGED lk

\* ------------------------------------------------------- lock protocol
\* Each function of impl Log as the steps between its lock acquisitions.  A
\* section that takes one lock while the thread holds no other is one step.
Holds(t, l) == \E h \in lk.held[l] : h[1] = t
HeldBy(t) == {l \in Locks : Holds(t, l)}

\* parking_lot: a write lock or a mutex needs the lock free, a read lock needs
\* no writer.
Available(l, mode) ==
    IF mode = "w" THEN lk.held[l] = {} ELSE \A h \in lk.held[l] : h[2] = "r"

At(t, pc) == lk.panics = {} /\ lk.pc[t] = pc

Lock(s, t, l, mode) == [s EXCEPT !.held[l] = @ \cup {<<t, mode>>}]
Unlock(s, t, ls) ==
    [s EXCEPT !.held = [l \in Locks |-> IF l \in ls THEN {h \in @[l] : h[1] # t} ELSE @[l]]]
Goto(s, t, pc) == [s EXCEPT !.pc[t] = pc]

\* The lock a thread inside a call takes next, with its mode, by the place the
\* thread is at: the acquisitions of lines 525-754 that follow the first of a call.
Wants(t) ==
    LET pc == lk.pc[t]
    IN  CASE t = "writer" /\ pc = "open" -> Some(<<"appending", "r">>)
          [] t = "writer" /\ pc = "er_pool" -> Some(<<"log_pool", "w">>)
          [] t = "writer" /\ pc = "er_install" -> Some(<<"appending", "w">>)
          [] t = "writer" /\ pc = "er_append" -> Some(<<"appending", "w">>)
          [] t = "writer" /\ pc = "er_locked" -> Some(<<"overlays", "w">>)
          [] t = "flusher" /\ pc = "fo_flushing" /\ IsSome(lk.flushing) -> Some(<<"reading_state", "w">>)
          [] t = "flusher" /\ pc = "fo_woken" -> Some(<<"reading_state", "w">>)
          [] t = "flusher" /\ pc = "fo_state" /\ lk.reading_state # "Reading" -> Some(<<"reading", "w">>)
          [] t = "flusher" /\ pc = "fo_reading" /\ IsSome(lk.reading) -> Some(<<"cleanup_queue", "w">>)
          [] t = "flusher" /\ pc = "fo_size" -> Some(<<"appending", "r">>)
          [] t = "flusher" /\ pc = "fo_rotate" -> Some(<<"appending", "w">>)
          [] t = "enactor" /\ pc = "rn_state" /\ lk.reading_state = "Reading" -> Some(<<"reading", "w">>)
          [] t = "enactor" /\ pc = "end_read" -> Some(<<"overlays", "w">>)
          [] t = "cleaner" /\ pc = "cl_drained" -> Some(<<"log_pool", "w">>)
          [] t = "cleaner" /\ pc = "cl_pool" -> Some(<<"cleanup_queue", "r">>)
          [] t = "clearer" /\ pc = "cr_replay" -> Some(<<"replay_queue", "w">>)
          [] t = "clearer" /\ pc = "cr_overlays" -> Some(<<"overlays", "w">>)
          [] t = "clearer" /\ pc = "cr_locked" -> Some(<<"reading_state", "w">>)
          [] t = "killer" /\ pc = "kl_pool" -> Some(<<"reading", "w">>)
          [] t = "replayer" /\ pc = "rp_reading" /\ IsSome(lk.reading) -> Some(<<"cleanup_queue", "w">>)
          [] t = "replayer" /\ pc = "rp_reading" /\ IsNone(lk.reading) -> Some(<<"replay_queue", "w">>)
          [] t = "replayer" /\ pc = "rp_cleanup" -> Some(<<"replay_queue", "w">>)
          [] t = "replayer" /\ pc = "rp_queue" -> Some(<<"reading_state", "w">>)
          [] OTHER -> None

\* The lock the thread takes next is there to be taken.
Granted(t) == IsSome(Wants(t)) /\ Available(Wants(t)[1][1], Wants(t)[1][2])

\* The thread takes it.
Take(s, t) == Lock(s, t, Wants(t)[1][1], Wants(t)[1][2])

\* replay_next borrows the Log exclusively (&mut self): it runs only while no
\* other call is in progress and no LogWriter or LogReader is alive.
NotReplaying == lk.pc["replayer"] = "idle"
AllIdle == \A t \in Threads : lk.pc[t] = "idle"

\* ---- the writer thread
\* Log::begin_record, lines 513-520: no lock.
writer_begin_record ==
    /\ At("writer", "idle") /\ NotReplaying
    /\ IF IsSome(lk.appending) THEN lk.appending[1] < MaxLockRecords ELSE TRUE
    /\ lk' = Goto(lk, "writer", "open")
    /\ UNCHANGED logvars

\* Line 525: appending.read().is_none().
end_record_check ==
    /\ At("writer", "open") /\ Granted("writer")
    /\ lk' = Goto(lk, "writer", IF IsNone(lk.appending) THEN "er_pool" ELSE "er_append")
    /\ UNCHANGED logvars

\* Lines 527-536: log_pool.write() for the pop_front or the creation of a file.
end_record_pool ==
    /\ At("writer", "er_pool") /\ Granted("writer")
    /\ lk' = Goto(lk, "writer", "er_install")
    /\ UNCHANGED logvars

\* Lines 538-542: *appending.write() = Some(..), size 0.
end_record_install ==
    /\ At("writer", "er_install") /\ Granted("writer")
    /\ lk' = Goto([lk EXCEPT !.appending = Some(0)], "writer", "er_append")
    /\ UNCHANGED logvars

\* Lines 544-545: appending.write(), kept, and the unwrap.
end_record_lock_appending ==
    /\ At("writer", "er_append") /\ Granted("writer")
    /\ lk' = IF IsNone(lk.appending)
             THEN Goto([lk EXCEPT !.panics = @ \cup {"end_record_unwrap"}], "writer", "idle")
             ELSE Goto(Take(lk, "writer"), "writer", "er_locked")
    /\ UNCHANGED logvars

\* Line 547: overlays.write() with appending held.
end_record_lock_overlays ==
    /\ At("writer", "er_locked") /\ Granted("writer")
    /\ lk' = Goto(Take(lk, "writer"), "writer", "er_merge")
    /\ UNCHANGED logvars

\* Lines 548-567: the merge, the size, and both guards dropped on return.
end_record_return ==
    /\ At("writer", "er_merge")
    /\ lk' = Goto(Unlock([lk EXCEPT !.appending = Some(@[1] + 1)], "writer",
                         {"appending", "overlays"}), "writer", "idle")
    /\ UNCHANGED logvars

\* ---- the flusher thread
\* Line 605: flushing.lock(), kept to the end of the call.
flush_one_lock_flushing ==
    /\ At("flusher", "idle") /\ NotReplaying
    /\ Available("flushing", "w")
    /\ lk' = Goto(Lock(lk, "flusher", "flushing", "w"), "flusher", "fo_flushing")
    /\ UNCHANGED logvars

\* Lines 608-609: with a file in the flushing slot, reading_state.lock().
flush_one_lock_state ==
    /\ At("flusher", "fo_flushing") /\ Granted("flusher")
    /\ lk' = Goto(Take(lk, "flusher"), "flusher", "fo_state")
    /\ UNCHANGED logvars

\* Line 608: nothing in the flushing slot.
flush_one_skip ==
    /\ At("flusher", "fo_flushing") /\ IsNone(lk.flushing)
    /\ lk' = Goto(lk, "flusher", "fo_size")
    /\ UNCHANGED logvars

\* Lines 611-614: done_reading_cv.wait releases reading_state and parks the thread.
flush_one_wait ==
    /\ At("flusher", "fo_state") /\ lk.reading_state = "Reading"
    /\ lk' = Goto(Unlock(lk, "flusher", {"reading_state"}), "flusher", "fo_wait")
    /\ UNCHANGED logvars

\* Line 613: notified, the thread takes reading_state again and tests the loop condition.
flush_one_wake ==
    /\ At("flusher", "fo_woken") /\ Granted("flusher")
    /\ lk' = Goto(Take(lk, "flusher"), "flusher", "fo_state")
    /\ UNCHANGED logvars

\* Line 617: reading.write().
flush_one_lock_reading ==
    /\ At("flusher", "fo_state") /\ Granted("flusher")
    /\ lk' = Goto(Take(lk, "flusher"), "flusher", "fo_reading")
    /\ UNCHANGED logvars

\* Lines 618-621: a file in the reading slot: cleanup_queue.write().
flush_one_lock_cleanup ==
    /\ At("flusher", "fo_reading") /\ Granted("flusher")
    /\ lk' = Goto(Take(lk, "flusher"), "flusher", "fo_cleanup")
    /\ UNCHANGED logvars

\* Lines 621-624: the push, the reading state Idle.
flush_one_cleanup ==
    /\ At("flusher", "fo_cleanup")
    /\ lk' = Goto(Unlock([lk EXCEPT !.reading = None, !.reading_state = "Idle"],
                         "flusher", {"cleanup_queue"}), "flusher", "fo_activate")
    /\ UNCHANGED logvars

\* Lines 626-636: the flushing file becomes the reading file; reading and
\* reading_state are released at the end of the block.
flush_one_activate ==
    /\ \/ At("flusher", "fo_activate")
       \/ At("flusher", "fo_reading") /\ IsNone(lk.reading)
    /\ lk' = Goto(Unlock([lk EXCEPT !.reading = lk.flushing, !.flushing = None,
                                    !.reading_state = "Reading"],
                         "flusher", {"reading", "reading_state"}), "flusher", "fo_size")
    /\ UNCHANGED logvars

\* Line 640: appending.read() for the size.
flush_one_lock_size ==
    /\ At("flusher", "fo_size") /\ Granted("flusher")
    /\ lk' = Goto(Take(lk, "flusher"), "flusher", "fo_sized")
    /\ UNCHANGED logvars

\* Lines 640-641: cur_size > 0 && cur_size > min_size, for some min_size.
flush_one_size ==
    /\ At("flusher", "fo_sized")
    /\ \E rotate \in {FALSE, IF IsSome(lk.appending) THEN lk.appending[1] > 0 ELSE FALSE} :
          lk' = IF rotate
                THEN Goto(Unlock(lk, "flusher", {"appending"}), "flusher", "fo_rotate")
                ELSE Goto(Unlock(lk, "flusher", {"appending", "flushing"}), "flusher", "idle")
    /\ UNCHANGED logvars

\* Line 642: appending.write().
flush_one_lock_appending ==
    /\ At("flusher", "fo_rotate") /\ Granted("flusher")
    /\ lk' = Goto(Take(lk, "flusher"), "flusher", "fo_take")
    /\ UNCHANGED logvars

\* Lines 643-661: the append file moves to the flushing slot; return.
flush_one_rotate ==
    /\ At("flusher", "fo_take")
    /\ lk' = Goto(Unlock([lk EXCEPT !.flushing = lk.appending, !.appending = None],
                         "flusher", {"appending", "flushing"}), "flusher", "idle")
    /\ UNCHANGED logvars

\* ---- the enactor thread
\* Line 716: reading_state.lock().
read_next_lock_state ==
    /\ At("enactor", "idle") /\ NotReplaying
    /\ Available("reading_state", "w")
    /\ lk' = Goto(Lock(lk, "enactor", "reading_state", "w"), "enactor", "rn_state")
    /\ UNCHANGED logvars

\* Lines 717-720: not Reading: None.
read_next_idle ==
    /\ At("enactor", "rn_state") /\ lk.reading_state # "Reading"
    /\ lk' = Goto(Unlock(lk, "enactor", {"reading_state"}), "enactor", "idle")
    /\ UNCHANGED logvars

\* Line 722: reading.write() with reading_state held.
read_next_lock_reading ==
    /\ At("enactor", "rn_state") /\ Granted("enactor")
    /\ lk' = Goto(Take(lk, "enactor"), "enactor", "rn_reading")
    /\ UNCHANGED logvars

\* Lines 723-726: no file in the reading slot: None, the state left as it is.
read_next_no_file ==
    /\ At("enactor", "rn_reading") /\ IsNone(lk.reading)
    /\ lk' = Goto(Unlock(lk, "enactor", {"reading", "reading_state"}), "enactor", "idle")
    /\ UNCHANGED logvars

\* Lines 727-732: a record begins: the LogReader is returned with the write
\* guard of reading in it; reading_state is released.
read_next_record ==
    /\ At("enactor", "rn_reading") /\ IsSome(lk.reading) /\ lk.reading[1] > 0
    /\ lk' = Goto(Unlock([lk EXCEPT !.reading = Some(@[1] - 1)], "enactor", {"reading_state"}),
                  "enactor", "reader")
    /\ UNCHANGED logvars

\* Condvar::notify_one: the thread parked in wait, if any, is woken.
notify_one(s) == IF s.pc["flusher"] = "fo_wait" THEN Goto(s, "flusher", "fo_woken") ELSE s

\* Lines 734-739: end of file: Idle, done_reading_cv.notify_one(), None.
read_next_eof ==
    /\ At("enactor", "rn_reading") /\ IsSome(lk.reading) /\ lk.reading[1] = 0
    /\ lk' = Goto(Unlock(notify_one([lk EXCEPT !.reading_state = "Idle"]), "enactor",
                         {"reading", "reading_state"}), "enactor", "idle")
    /\ UNCHANGED logvars

\* The record is read to its end and LogReader::drain (lines 195-197) drops the guard.
reader_drain ==
    /\ At("enactor", "reader")
    /\ lk' = Goto(Unlock(lk, "enactor", {"reading"}), "enactor", "end_read")
    /\ UNCHANGED logvars

\* Log::end_read, lines 570-601: overlays.write().
end_read_overlays ==
    /\ At("enactor", "end_read") /\ Granted("enactor")
    /\ lk' = Goto(lk, "enactor", "idle")
    /\ UNCHANGED logvars

\* ---- the cleaner thread
clean_logs_drain_Hold ==
    /\ At("cleaner", "idle") /\ NotReplaying
    /\ Available("cleanup_queue", "w")
    /\ lk' = Goto(Lock(lk, "cleaner", "cleanup_queue", "w"), "cleaner", "cl_drained")
    /\ UNCHANGED logvars

\* Lines 688-690: cleanup_queue.write() for the drain; the guard is a temporary.
clean_logs_drain ==
    /\ At("cleaner", "idle") /\ NotReplaying
    /\ Available("cleanup_queue", "w")
    /\ lk' = Goto(lk, "cleaner", "cl_drained")
    /\ UNCHANGED logvars

\* Line 697: log_pool.write(), kept to the end of the call.
clean_logs_lock_pool ==
    /\ At("cleaner", "cl_drained") /\ Granted("cleaner")
    /\ lk' = Goto(Take(lk, "cleaner"), "cleaner", "cl_pool")
    /\ UNCHANGED logvars

\* Line 708: cleanup_queue.read() with log_pool held.
clean_logs_lock_cleanup ==
    /\ At("cleaner", "cl_pool") /\ Granted("cleaner")
    /\ lk' = Goto(Take(lk, "cleaner"), "cleaner", "cl_check")
    /\ UNCHANGED logvars

\* Lines 708-709: return.
clean_logs_return ==
    /\ At("cleaner", "cl_check")
    /\ lk' = Goto(Unlock(lk, "cleaner", {"cleanup_queue", "log_pool"}), "cleaner", "idle")
    /\ UNCHANGED logvars

\* ---- clear_replay_logs
\* Lines 490-497: reading.write(), the reading file dropped.
clear_replay_logs_reading ==
    /\ At("clearer", "idle") /\ NotReplaying
    /\ Available("reading", "w")
    /\ lk' = Goto([lk EXCEPT !.reading = None], "clearer", "cr_replay")
    /\ UNCHANGED logvars

\* Lines 498-504: replay_queue.write(), the queue taken and its files dropped.
clear_replay_logs_queue ==
    /\ At("clearer", "cr_replay") /\ Granted("clearer")
    /\ lk' = Goto([lk EXCEPT !.replay_queue = 0], "clearer", "cr_overlays")
    /\ UNCHANGED logvars

\* Line 505: overlays.write(), kept to the end of the call.
clear_replay_logs_lock_overlays ==
    /\ At("clearer", "cr_overlays") /\ Granted("clearer")
    /\ lk' = Goto(Take(lk, "clearer"), "clearer", "cr_locked")
    /\ UNCHANGED logvars

\* Line 508: reading_state.lock() with overlays held.
clear_replay_logs_lock_state ==
    /\ At("clearer", "cr_locked") /\ Granted("clearer")
    /\ lk' = Goto(Take(lk, "clearer"), "clearer", "cr_state")
    /\ UNCHANGED logvars

\* Lines 508-510: Idle, without a notification; return.
clear_replay_logs_return ==
    /\ At("clearer", "cr_state")
    /\ lk' = Goto(Unlock([lk EXCEPT !.reading_state = "Idle"], "clearer",
                         {"reading_state", "overlays"}), "clearer", "idle")
    /\ UNCHANGED logvars

\* ---- kill_logs
\* Line 749: log_pool.write(), kept to the end of the call.
kill_logs_lock_pool ==
    /\ At("killer", "idle") /\ NotReplaying
    /\ Available("log_pool", "w")
    /\ lk' = Goto(Lock(lk, "killer", "log_pool", "w"), "killer", "kl_pool")
    /\ UNCHANGED logvars

\* Line 754: reading.write() with log_pool held.
kill_logs_lock_reading ==
    /\ At("killer", "kl_pool") /\ Granted("killer")
    /\ lk' = Goto(Take(lk, "killer"), "killer", "kl_reading")
    /\ UNCHANGED logvars

\* Lines 754-758: the reading file taken and deleted; the reading state is not touched.
kill_logs_return ==
    /\ At("killer", "kl_reading")
    /\ lk' = Goto(Unlock([lk EXCEPT !.reading = None], "killer", {"reading", "log_pool"}),
                  "killer", "idle")
    /\ UNCHANGED logvars

\* ---- replay_next
\* Line 665: reading.write(), kept to the end of the call.
replay_next_lock_reading ==
    /\ lk.panics = {} /\ AllIdle
    /\ Available("reading", "w")
    /\ lk' = Goto(Lock(lk, "replayer", "reading", "w"), "replayer", "rp_reading")
    /\ UNCHANGED logvars

\* Lines 667-670: a file in the reading slot: cleanup_queue.write().
replay_next_lock_cleanup ==
    /\ At("replayer", "rp_reading") /\ IsSome(lk.reading) /\ Granted("replayer")
    /\ lk' = Goto(Take(lk, "replayer"), "replayer", "rp_pushed")
    /\ UNCHANGED logvars

\* Lines 670-671: the push.
replay_next_cleanup ==
    /\ At("replayer", "rp_pushed")
    /\ lk' = Goto(Unlock([lk EXCEPT !.reading = None], "replayer", {"cleanup_queue"}),
                  "replayer", "rp_cleanup")
    /\ UNCHANGED logvars

\* Line 673: replay_queue.write(), kept through both branches of the if let.
replay_next_lock_queue ==
    /\ \/ At("replayer", "rp_cleanup")
       \/ At("replayer", "rp_reading") /\ IsNone(lk.reading)
    /\ Granted("replayer")
    /\ lk' = Goto(Take(lk, "replayer"), "replayer", "rp_queue")
    /\ UNCHANGED logvars

\* Lines 679 and 682: reading_state.lock() with reading and replay_queue held.
replay_next_lock_state ==
    /\ At("replayer", "rp_queue") /\ Granted("replayer")
    /\ lk' = Goto(Take(lk, "replayer"), "replayer", "rp_state")
    /\ UNCHANGED logvars

\* Lines 673-684: the head of the queue becomes the reading file, Reading; or Idle.
replay_next_return ==
    /\ At("replayer", "rp_state")
    /\ lk' = Goto(Unlock(IF lk.replay_queue > 0
                         THEN [lk EXCEPT !.reading = Some(1), !.reading_state = "Reading",
                                         !.replay_queue = @ - 1]
                         ELSE [lk EXCEPT !.reading_state = "Idle"],
                         "replayer", {"reading_state", "replay_queue", "reading"}),
                  "replayer", "idle")
    /\ UNCHANGED logvars

\* -------------------------------------------------------- specifications
\* One process on a fresh directory: writer, flusher, enactor and cleaner.
Pipeline ==
    \/ end_record_acquire
    \/ end_record_write
    \/ flush_one
    \/ read_next(BOOLEAN)
    \/ read_next_none
    \/ reader_next
    \/ end_read_load
    \/ end_read_store
    \/ clean_logs

NextRun ==
    \/ begin_record(MaxRecords)
    \/ insert_index(MaxOps, IndexTables, IndexSlots)
    \/ insert_value(MaxOps, ValueTables, Slots, Payloads)
    \/ drop_table(MaxOps, IndexTables)
    \/ Pipeline

SpecRun == Init /\ [][NextRun]_vars

\* The whole interface, the process stopping and reopening the directory included.
\* Recovery: the process stops at any point and reopens the directory.
NextRecover ==
    \/ begin_record(MaxWrites)
    \/ insert_value(MaxReplayOps, ValueTables, ReplaySlots, ReplayPayloads)
    \/ Pipeline
    \/ Open
    \/ replay_next

SpecRecover == Init /\ [][NextRecover]_vars

\* A directory left by an earlier process that never called clean_logs: log i
\* holds the record with id i + 1.
PoolDisk == [i \in 0..(PoolFiles - 1) |-> to_file([record_id |-> i + 1, uid |-> i + 1, local_index |-> EmptyMap,
                                                local_values |-> EmptyMap, dropped_tables |-> << >>])]

\* Log::open on that directory (lines 411-456).
InitPool ==
    /\ files = PoolDisk
    /\ \E q \in ReplayOrders(PoolDisk) :
          replay_queue = [i \in DOMAIN q |-> [id |-> q[i], record_id |-> open_log_file(PoolDisk[q[i]])[1]]]
    /\ next_log_id = Max(DOMAIN PoolDisk) + 1
    /\ overlays = EmptyOverlays
    /\ appending = None
    /\ flushing = None
    /\ reading = None
    /\ reading_state = "Idle"
    /\ next_record_id = 1
    /\ dirty = TRUE
    /\ log_pool = << >>
    /\ cleanup_queue = << >>
    /\ writer = None
    /\ reader = None
    /\ endread = None
    /\ panics = {}
    /\ hist = [u \in 1..PoolFiles |->
                 [record_id |-> u, epoch |-> 1, stage |-> "written", index |-> EmptyMap,
                  values |-> EmptyMap, ikeys |-> {}, vkeys |-> {}, dropped |-> << >>, acquired |-> None,
                  enacted_in |-> 0]]
    /\ epoch = 2
    /\ lk = LkInit

\* The logs are activated one after the other and cleaned, unread, while a writer
\* and the flusher run: the file lifecycle without the enactor.
NextPool ==
    \/ begin_record(PoolFiles + MaxPoolWrites)
    \/ end_record_acquire
    \/ end_record_write
    \/ flush_one
    \/ replay_next
    \/ clean_logs

SpecPool == InitPool /\ [][NextPool]_vars

\* The record that begins at offset i of a file: the entries up to its end marker.
RecordAt(content, i) ==
    LET ends == {j \in i..Len(content) : content[j].t = "End"}
        last == CHOOSE j \in ends : \A k \in ends : j <= k
    IN  SubSeq(content, i, last)

\* Its stored checksum is the checksum of its bytes up to the checksum field.
ChecksumMatches(rec) == rec[Len(rec)].checksum = Crc32Of(Crc32New, rec)

Intact(content) ==
    \A i \in DOMAIN content : content[i].t = "Begin" => ChecksumMatches(RecordAt(content, i))

\* The disk, or a test hook, damages one record that is not being read: its
\* stored checksum or the payload of one of its values changes.  At most one
\* record of the directory is damaged at a time.
corrupt ==
    /\ Running
    /\ IsNone(reader)
    /\ \A f \in DOMAIN files : Intact(files[f])
    /\ \E f \in DOMAIN files : \E i \in DOMAIN files[f] :
          LET tok == files[f][i]
          IN  /\ tok.t \in {"End", "InsertValue"}
              /\ files' = [files EXCEPT ![f][i] =
                             IF tok.t = "End"
                             THEN [tok EXCEPT !.checksum = (tok.checksum + 1) % 65521]
                             ELSE [tok EXCEPT !.data = [k \in DOMAIN tok.data |-> tok.data[k] + 1]]]
    /\ UNCHANGED <<overlays, appending, flushing, reading, reading_state, next_record_id,
                   next_log_id, dirty, log_pool, cleanup_queue, replay_queue, writer,
                   reader, endread, panics, hist, epoch>>
    /\ UNCHANGED lk

\* The codec: records are written, possibly damaged on disk, and read back in
\* either mode.
NextCodec ==
    \/ begin_record(MaxCodecRecords)
    \/ insert_index(MaxOps, IndexTables, IndexSlots)
    \/ insert_value(MaxOps, ValueTables, Slots, Payloads)
    \/ drop_table(MaxOps, IndexTables)
    \/ end_record_acquire
    \/ end_record_write
    \/ flush_one
    \/ corrupt
    \/ read_next(BOOLEAN)
    \/ reader_next
    \/ reader_abandon
    \/ end_read_load
    \/ end_read_store

SpecCodec == Init /\ [][NextCodec]_vars

\* Record ids: empty records are written, the process restarts and replays
\* them while it writes more.
NextIds ==
    \/ begin_record(MaxIdWrites)
    \/ end_record_acquire
    \/ end_record_write
    \/ flush_one
    \/ read_next({TRUE})
    \/ reader_next
    \/ end_read_load
    \/ end_read_store
    \/ Open
    \/ replay_next

SpecIds == Init /\ [][NextIds]_vars

\* The lock protocol of the whole interface: every thread calls its functions
\* again and again.
WriterSteps ==
    \/ end_record_check
    \/ end_record_pool
    \/ end_record_install
    \/ end_record_lock_appending
    \/ end_record_lock_overlays
    \/ end_record_return

FlusherSteps ==
    \/ flush_one_lock_state
    \/ flush_one_skip
    \/ flush_one_wait
    \/ flush_one_wake
    \/ flush_one_lock_reading
    \/ flush_one_lock_cleanup
    \/ flush_one_cleanup
    \/ flush_one_activate
    \/ flush_one_lock_size
    \/ flush_one_size
    \/ flush_one_lock_appending
    \/ flush_one_rotate

EnactorSteps ==
    \/ read_next_idle
    \/ read_next_lock_reading
    \/ read_next_no_file
    \/ read_next_record
    \/ read_next_eof
    \/ reader_drain
    \/ end_read_overlays

CleanerSteps ==
    \/ clean_logs_lock_pool
    \/ clean_logs_lock_cleanup
    \/ clean_logs_return

ClearerSteps ==
    \/ clear_replay_logs_queue
    \/ clear_replay_logs_lock_overlays
    \/ clear_replay_logs_lock_state
    \/ clear_replay_logs_return

KillerSteps ==
    \/ kill_logs_lock_reading
    \/ kill_logs_return

ReplayerSteps ==
    \/ replay_next_lock_cleanup
    \/ replay_next_cleanup
    \/ replay_next_lock_queue
    \/ replay_next_lock_state
    \/ replay_next_return

NextLocks ==
    \/ writer_begin_record
    \/ WriterSteps
    \/ flush_one_lock_flushing
    \/ FlusherSteps
    \/ read_next_lock_state
    \/ EnactorSteps
    \/ clean_logs_drain
    \/ CleanerSteps
    \/ clear_replay_logs_reading
    \/ ClearerSteps
    \/ kill_logs_lock_pool
    \/ KillerSteps
    \/ replay_next_lock_reading
    \/ ReplayerSteps

SpecLocks == Init /\ [][NextLocks]_vars

\* The same with the scheduler's part: a call that has begun goes on whenever it
\* can (a thread that needs a lock gets it if the lock is free again and
\* again), and the flusher and the enactor keep calling flush_one and read_next.
SpecWake ==
    /\ Init /\ [][NextLocks]_vars
    /\ SF_vars(WriterSteps) /\ SF_vars(FlusherSteps) /\ SF_vars(EnactorSteps)
    /\ SF_vars(CleanerSteps) /\ SF_vars(ClearerSteps) /\ SF_vars(KillerSteps)
    /\ SF_vars(ReplayerSteps)
    /\ SF_vars(read_next_lock_state) /\ SF_vars(flush_one_lock_flushing)

\* The whole interface, the calls that delete logs on purpose included.
Next ==
    \/ NextRecover
    \/ clear_replay_logs
    \/ kill_logs

Spec == Init /\ [][Next]_vars

\* ================================================================ claims
Written == {u \in DOMAIN hist : hist[u].stage \in {"written", "called", "enacted", "discarded"}}
ThisRun == {u \in DOMAIN hist : hist[u].epoch = epoch}

\* The record wrote the (table, slot) of the index (kind "i") or value (kind "v") map.
Wrote(u, kind, k) == IF kind = "i" THEN k \in hist[u].ikeys ELSE k \in hist[u].vkeys
OvMap(ov, kind) == IF kind = "i" THEN ov.index ELSE ov.value
Kinds == {"i", "v"}
AllKeys == (IndexTables \cup ValueTables) \X Slots

\* A later record of this run, completed with end_record, wrote the same slot.
Superseded(u, kind, k) ==
    \E v \in ThisRun \cap Written : hist[v].record_id > hist[u].record_id /\ Wrote(v, kind, k)

\* The overlay covers the slot for the record: the entry is the one the record
\* wrote, or a later record wrote the slot and the entry is that later record's.
Covers(ov, u, kind, k) ==
    /\ Has(OvMap(ov, kind), k[1], k[2])
    /\ LET e == OvMap(ov, kind)[k[1]][k[2]]
           mine == IF kind = "i" THEN hist[u].index ELSE hist[u].values
       IN  \/ e = mine[k[1]][k[2]]
           \/ e.rid > hist[u].record_id /\ Superseded(u, kind, k)

\* What an entry holds for the reader of the overlay: the chunk or the payload.
Data(e, kind) == IF kind = "i" THEN e.chunk ELSE e.data

\* The overlay holds, at the slot, the data the record wrote there.
Own(ov, u, kind, k) ==
    /\ Has(OvMap(ov, kind), k[1], k[2])
    /\ Data(OvMap(ov, kind)[k[1]][k[2]], kind) =
          Data((IF kind = "i" THEN hist[u].index ELSE hist[u].values)[k[1]][k[2]], kind)

\* C1 as stated: every record written via end_record in this run either has each
\* of its index and value mutations in the overlay, or end_read has been called
\* with its record id.
C1_Original ==
    \A u \in ThisRun :
        hist[u].stage = "written" =>
            \A kind \in Kinds : \A k \in AllKeys : Wrote(u, kind, k) => Own(overlays, u, kind, k)

\* C1, amended: every record written via end_record in this run either has, at each
\* (table, slot) it wrote, its own entry in the overlay or the entry of a later
\* record that wrote the same slot, or end_read has been called with its record id.
C1_OverlayOrEnacted ==
    \A u \in ThisRun :
        hist[u].stage = "written" =>
            \A kind \in Kinds : \A k \in AllKeys : Wrote(u, kind, k) => Covers(overlays, u, kind, k)

\* Two written records, neither through end_read; the earlier has an index
\* mutation of its own in the overlay and a value slot where the overlay holds
\* the later record's entry.
C1_Witness ==
    \E u, v \in ThisRun :
        /\ hist[u].stage = "written" /\ hist[v].stage = "written"
        /\ hist[u].record_id < hist[v].record_id
        /\ \E k \in hist[u].ikeys : Own(overlays, u, "i", k)
        /\ \E k \in hist[u].vkeys \cap hist[v].vkeys :
              Own(overlays, v, "v", k) /\ ~Own(overlays, u, "v", k)

\* The step is end_record's write of a record (lines 544-567), without a panic.
EndRecordStep ==
    /\ IsSome(writer) /\ writer[1].pc = "append" /\ IsSome(appending)
    /\ IsNone(writer') /\ epoch' = epoch

\* The step is the second half of end_read (lines 572-600).
EndReadStep == IsSome(endread) /\ IsNone(endread') /\ epoch' = epoch

PairsOf(seq) == {seq[i] : i \in DOMAIN seq}
ClearList(e, kind) == IF kind = "i" THEN PairsOf(e.cleared.index) ELSE PairsOf(e.cleared.values)

C2_Publish ==
    EndRecordStep =>
        LET log == writer[1]
        IN  /\ \A k \in Keys(log.local_index) :
                  with_index(overlays', k[1], k[2]) = Some(log.local_index[k[1]][k[2]].chunk)
            /\ \A k \in Keys(log.local_values) : \A n \in DestLens :
                  LET d == log.local_values[k[1]][k[2]].data
                  IN  value(overlays', k[1], k[2], n) = Some(SubSeq(d, 1, IF n < Len(d) THEN n ELSE Len(d)))

C2_Evict ==
    EndReadStep =>
        \A kind \in Kinds : \A k \in ClearList(endread[1], kind) :
            ~Superseded(endread[1].uid, kind, k) => ~Has(OvMap(overlays', kind), k[1], k[2])

\* C2: when end_record returns, a query of the overlay for each slot the record
\* wrote finds the record's data; when end_read returns for the record, the
\* overlay has no entry at a slot of its clear list that no later record wrote.
C2_LifeOfMutation == [][C2_Publish /\ C2_Evict]_vars

\* A record that wrote an index and a value slot has been enacted, no later record
\* wrote them, and the overlay has no entry for them.
C2_Witness ==
    \E u \in ThisRun :
        /\ hist[u].stage = "enacted" /\ hist[u].vkeys # {} /\ hist[u].ikeys # {}
        /\ \A kind \in Kinds : \A k \in AllKeys :
              Wrote(u, kind, k) => ~Superseded(u, kind, k) /\ ~Has(OvMap(overlays, kind), k[1], k[2])

Entries(ov, kind) == {<<k[1], k[2], OvMap(ov, kind)[k[1]][k[2]]>> : k \in Keys(OvMap(ov, kind))}

\* C3: end_read removes an overlay entry only if its (table, slot) is in the clear
\* list and its stored record id is the one passed; every other entry is unchanged
\* and no entry appears.
C3_EndReadFrame ==
    [][EndReadStep =>
        \A kind \in Kinds :
            /\ Entries(overlays', kind) \subseteq Entries(overlays, kind)
            /\ \A x \in Entries(overlays, kind) \ Entries(overlays', kind) :
                  <<x[1], x[2]>> \in ClearList(endread[1], kind) /\ x[3].rid = endread[1].record_id]_vars

\* end_read has returned for a record and the overlay still has an entry, stored
\* by a later record, at a slot of the record's clear list, and an entry at a slot
\* that is not in the list.
C3_Witness ==
    \E u \in ThisRun :
        /\ hist[u].stage = "enacted"
        /\ \E k \in hist[u].vkeys :
              Has(overlays.value, k[1], k[2]) /\ overlays.value[k[1]][k[2]].rid # hist[u].record_id
        /\ \E k \in Keys(overlays.value) : k \notin hist[u].vkeys

\* The last record of this run, completed with end_record, that wrote the slot.
LastWriter(u, kind, k) == u \in ThisRun \cap Written /\ Wrote(u, kind, k) /\ ~Superseded(u, kind, k)

C4_Entry ==
    \A u1, u2 \in ThisRun \cap Written : \A kind \in Kinds : \A k \in AllKeys :
        (/\ hist[u1].record_id < hist[u2].record_id
         /\ Wrote(u1, kind, k)
         /\ LastWriter(u2, kind, k)
         /\ Has(OvMap(overlays, kind), k[1], k[2]))
        => /\ hist[u2].stage \in {"written", "called"}
           /\ OvMap(overlays, kind)[k[1]][k[2]].rid = hist[u2].record_id
           /\ OvMap(overlays, kind)[k[1]][k[2]] =
                 (IF kind = "i" THEN hist[u2].index ELSE hist[u2].values)[k[1]][k[2]]

C4_Steps ==
    \A kind \in Kinds : \A k \in AllKeys :
        Has(OvMap(overlays, kind), k[1], k[2]) =>
            LET e == OvMap(overlays, kind)[k[1]][k[2]]
                kept == Has(OvMap(overlays', kind), k[1], k[2]) /\ OvMap(overlays', kind)[k[1]][k[2]] = e
            IN  /\ (EndReadStep /\ endread[1].record_id < e.rid) => kept
                /\ ~Has(OvMap(overlays', kind), k[1], k[2]) =>
                      EndReadStep /\ endread[1].record_id = e.rid

\* C4: when two records completed with end_record wrote the same slot, the overlay
\* entry of the slot, if present, carries the id and the data of the later one (the
\* last that wrote it); end_read for an earlier record leaves the entry as it is, and
\* the entry disappears only in end_read for the record whose id it carries.
C4_Shadowed == []C4_Entry /\ [][C4_Steps]_vars

\* The earlier of two records that wrote the same slot has been enacted and the
\* overlay entry of the slot is the later record's.
C4_Witness ==
    \E u1, u2 \in ThisRun : \E k \in AllKeys :
        /\ hist[u1].stage = "enacted" /\ hist[u2].stage = "written"
        /\ hist[u1].record_id < hist[u2].record_id
        /\ k \in hist[u1].vkeys /\ k \in hist[u2].vkeys
        /\ Has(overlays.value, k[1], k[2])
        /\ overlays.value[k[1]][k[2]] = hist[u2].values[k[1]][k[2]]

SlotIds ==
    (IF IsSome(appending) THEN {appending[1].id} ELSE {})
    \cup (IF IsSome(flushing) THEN {flushing[1].id} ELSE {})
    \cup (IF IsSome(reading) THEN {reading[1].id} ELSE {})

\* The records that begin in a file.
RecordsIn(content) == {content[i].uid : i \in {j \in DOMAIN content : content[j].t = "Begin"}}
HandedOver(content) == \A u \in RecordsIn(content) : hist[u].stage \in {"called", "enacted"}

C5_Slots == (SeqRange(log_pool) \cup SeqRange(cleanup_queue)) \cap SlotIds = {}

C5_Steps ==
    /\ \A f \in SeqRange(cleanup_queue') \ SeqRange(cleanup_queue) :
          /\ IsSome(reading) /\ reading[1].id = f
          /\ reading_state = "Idle"
          /\ reading[1].pos > Len(files[f])
          /\ HandedOver(files[f])
    /\ \A f \in DOMAIN files :
          (f \notin DOMAIN files' \/ Len(files'[f]) < Len(files[f])) =>
              f \in SeqRange(cleanup_queue) /\ f \notin SlotIds /\ HandedOver(files[f])
    /\ \A f \in SeqRange(log_pool') \ SeqRange(log_pool) :
          f \in SeqRange(cleanup_queue) /\ f \notin SlotIds /\ files'[f] = << >>

\* C5: no file in the pool or the cleanup queue is in the appending, flushing or
\* reading slot; a file enters the cleanup queue from the reading slot only when
\* read_next has reached its end (reading state Idle, reader at end of file); a
\* file is truncated or pooled only out of the cleanup queue, and every record in
\* it has been handed to the enactor before.
C5_NoEarlyRecycle == []C5_Slots /\ [][C5_Steps]_vars

\* A file written in this run is back in the pool, truncated, while another file
\* is in the reading slot.
C5_Witness ==
    /\ log_pool # << >> /\ IsSome(reading)
    /\ \E u \in ThisRun : hist[u].stage = "enacted"
    /\ \A i \in DOMAIN log_pool : files[log_pool[i]] = << >>

\* Records written by end_record for which no end_read has returned.
NotYetEnacted == {u \in DOMAIN hist : hist[u].stage \in {"written", "called", "discarded"}}

\* Those of them that no replay_next call took out of the reading slot before
\* read_next had reached them, and no clear_replay_logs or kill_logs call deleted.
Unenacted == {u \in DOMAIN hist : hist[u].stage \in {"written", "called"}}

OnDisk(u) == \E f \in DOMAIN files : BeginsOf(f, u) # {}

\* The record is in a file of the replay queue, or ahead of the reader in the
\* file of the reading slot, or in the hands of the enactor.
InReplay(u) ==
    \/ \E k \in DOMAIN replay_queue : BeginsOf(replay_queue[k].id, u) # {}
    \/ IsSome(reading) /\ \E i \in BeginsOf(reading[1].id, u) : i >= reading[1].pos
    \/ IsSome(reader) /\ reader[1].uid = u
    \/ IsSome(endread) /\ endread[1].uid = u

OpenStep == epoch' = epoch + 1

C6_Open ==
    OpenStep =>
        \A u \in Unenacted :
            \E k \in DOMAIN replay_queue' :
                LET f == replay_queue'[k].id
                IN  /\ f \in DOMAIN files' /\ files'[f] # << >>
                    /\ \E i \in DOMAIN files'[f] : files'[f][i].t = "Begin" /\ files'[f][i].uid = u

C6_Kept == \A u \in Unenacted : OnDisk(u) /\ (hist[u].epoch < epoch => InReplay(u))

\* C6 as stated: at every point every record written by end_record and not yet
\* enacted is in a non-empty log file on disk (the file that open would put in the
\* replay queue).
C6_Original == \A u \in NotYetEnacted : OnDisk(u)

\* C6, amended: the same for the records that no replay_next call took out of the
\* reading slot unread and no clear_replay_logs or kill_logs call deleted: each is
\* in a non-empty file on disk at every point, open puts that file in the replay
\* queue, and from then on the record is in the replay queue, ahead of the reader
\* in the reading slot or in the hands of the enactor until end_read returns.
C6_Recovery == []C6_Kept /\ [][C6_Open]_vars

\* A record written before the process stopped is in the hands of the enactor
\* after the reopen, read to its end, before any end_read for it.
C6_Witness ==
    /\ IsSome(reader) /\ reader[1].ended
    /\ hist[reader[1].uid].epoch < epoch
    /\ hist[reader[1].uid].stage = "written"
    /\ reader[1].cleared.values # << >>

\* C7: every id assigned by begin_record after a reopen is greater than every id
\* assigned before it.
C7_IdsIncreaseAcrossRestarts ==
    \A u1, u2 \in DOMAIN hist :
        hist[u1].epoch < hist[u2].epoch => hist[u1].record_id < hist[u2].record_id

\* The records of an earlier run for which end_read has returned in this run.
Replayed == {u \in DOMAIN hist : hist[u].epoch < epoch /\ hist[u].enacted_in = epoch}

C8_Counter == \A u \in Replayed : next_record_id > hist[u].record_id

C8_Begin ==
    (Len(hist') > Len(hist)) =>
        \A u \in Replayed : hist'[Len(hist')].record_id > hist[u].record_id

\* C8: after a reopen, once end_read has returned for replayed records, the counter
\* is above each of their ids and the id begin_record returns next is greater than
\* the greatest of them.
C8_NextIdAboveReplayed == []C8_Counter /\ [][C8_Begin]_vars

\* Two records of the earlier run, ids 1 and 2, were replayed and end_read returned
\* for both; the writer begun since holds id 3.
C8_Witness ==
    /\ Cardinality(Replayed) = 2
    /\ \E u \in Replayed : hist[u].record_id = 2
    /\ IsSome(writer) /\ writer[1].record_id = 3
    /\ hist[writer[1].uid].epoch = epoch

\* C9: within a run of the process no step makes next_record_id smaller.
C9_CounterNeverDecreases == [][epoch' = epoch => next_record_id' >= next_record_id]_vars

\* C10: with one writer at a time, the assertion of end_record never fails.
C10_AssertionHolds == "end_record_assert" \notin panics

\* C11: clean_logs(n) completes without failing for every n, also for n greater
\* than the length of the cleanup queue.
C11_CleanLogsCompletes == "clean_logs_drain" \notin panics

\* The log ids in the slots and queues of a state.
PlaceIds(ap, fl, rd, pool, cq, rq) ==
    (IF IsSome(ap) THEN {ap[1].id} ELSE {})
    \cup (IF IsSome(fl) THEN {fl[1].id} ELSE {})
    \cup (IF IsSome(rd) THEN {rd[1].id} ELSE {})
    \cup SeqRange(pool) \cup SeqRange(cq) \cup {rq[i].id : i \in DOMAIN rq}

\* The step is a clean_logs call that returns (lines 687-709).
CleanStep == epoch' = epoch /\ Len(cleanup_queue') < Len(cleanup_queue)

\* The files the call takes from the cleanup queue.
Cleaned == {cleanup_queue[i] : i \in 1..(Len(cleanup_queue) - Len(cleanup_queue'))}

C12_Bound == Len(log_pool) <= MAX_LOG_POOL_SIZE

C12_Trim ==
    /\ CleanStep =>
          LET merged == SeqRange(log_pool) \cup Cleaned
              excess == merged \ SeqRange(log_pool')
          IN  /\ Cardinality(merged) > MAX_LOG_POOL_SIZE => Len(log_pool') = MAX_LOG_POOL_SIZE
              /\ Cardinality(merged) <= MAX_LOG_POOL_SIZE => excess = {}
              /\ \A f \in excess : f \notin DOMAIN files'
              /\ Cardinality(excess) = Max({0, Cardinality(merged) - MAX_LOG_POOL_SIZE})
    /\ epoch' = epoch =>
          \A f \in (DOMAIN files) \ (DOMAIN files') :
              f \notin PlaceIds(appending', flushing', reading', log_pool', cleanup_queue', replay_queue')

\* C12: the pool never holds more than MAX_LOG_POOL_SIZE files; when the pooled
\* and the newly cleaned files are more than that, clean_logs leaves exactly
\* MAX_LOG_POOL_SIZE in the pool and deletes the others from disk, and a file
\* deleted from disk is in no slot and no queue after the step.
C12_PoolBound == []C12_Bound /\ [][C12_Trim]_vars

\* The pool is full and clean_logs has deleted files of the directory.
C12_Witness ==
    /\ Len(log_pool) = MAX_LOG_POOL_SIZE
    /\ \E f \in DOMAIN PoolDisk : f \notin DOMAIN files

C13_Sorted == \A i, j \in DOMAIN log_pool : i < j => log_pool[i] < log_pool[j]

\* The step is end_record acquiring an append file (lines 525-543).
AcquireStep == epoch' = epoch /\ IsNone(appending) /\ IsSome(appending')

C13_Steps ==
    /\ CleanStep =>
          \A f \in (SeqRange(log_pool) \cup Cleaned) \ SeqRange(log_pool') :
              \A g \in SeqRange(log_pool') : f > g
    /\ AcquireStep =>
          IF log_pool # << >>
          THEN /\ \A g \in SeqRange(log_pool) : appending'[1].id <= g
               /\ appending'[1].id \in SeqRange(log_pool)
               /\ next_log_id' = next_log_id
          ELSE appending'[1].id = next_log_id /\ next_log_id' = next_log_id + 1

\* C13: the pool is sorted ascending by id in every state; when clean_logs trims
\* the pool every deleted id is greater than every id kept; end_record takes the
\* pooled file with the lowest id, and a fresh id from next_log_id only when the
\* pool is empty.
C13_LowestIdFirst == []C13_Sorted /\ [][C13_Steps]_vars

\* The writer appends to a reused file, the lowest id there was in the pool, and
\* clean_logs has trimmed the pool to the lowest ids since.
C13_Witness ==
    /\ IsSome(appending) /\ appending[1].id < PoolFiles
    /\ Len(log_pool) = MAX_LOG_POOL_SIZE
    /\ \E f \in DOMAIN PoolDisk : f \notin DOMAIN files
    /\ \A f \in DOMAIN PoolDisk : f \notin DOMAIN files => \A g \in SeqRange(log_pool) : f > g

\* C14: the replay queue that open produces is ordered strictly ascending by the
\* first record id of its files, and stays so while replay_next pops its head.
C14_ReplayQueueAscending ==
    \A i, j \in DOMAIN replay_queue :
        i < j => replay_queue[i].record_id < replay_queue[j].record_id

\* The step is a replay_next call that changes the state.
ReplayStep ==
    /\ epoch' = epoch
    /\ replay_queue' # replay_queue \/ (IsSome(reading) /\ IsNone(reading'))

C15_Steps ==
    ReplayStep =>
        /\ cleanup_queue' = IF IsSome(reading) THEN cleanup_queue \o <<reading[1].id>> ELSE cleanup_queue
        /\ IF replay_queue # << >>
           THEN /\ IsSome(reading') /\ reading'[1].id = replay_queue[1].id /\ reading'[1].pos = 1
                /\ reading_state' = "Reading"
                /\ replay_queue' = SubSeq(replay_queue, 2, Len(replay_queue))
                /\ replay_next_returns = Some(reading'[1].id)
           ELSE /\ IsNone(reading')
                /\ reading_state' = "Idle"
                /\ replay_queue' = << >>
                /\ replay_next_returns = None

\* C15: replay_next appends the file of the reading slot, if any, to the cleanup
\* queue; with a non-empty replay queue it installs the head of the queue in the
\* reading slot, at the start of the file, sets the reading state Reading and
\* returns that log id; with an empty queue it leaves the reading slot empty, sets
\* Idle and returns None.
C15_ReplayNext == [][C15_Steps]_vars

\* replay_next has installed a second log of an earlier run in the reading slot
\* and moved the first, read to its end, to the cleanup queue.
C15_Witness ==
    /\ IsSome(reading) /\ reading[1].pos = 1 /\ reading_state = "Reading"
    /\ \E u \in DOMAIN hist : hist[u].epoch < epoch /\ BeginsOf(reading[1].id, u) # {}
    /\ cleanup_queue # << >>
    /\ \E u \in DOMAIN hist :
          /\ hist[u].epoch < epoch /\ hist[u].enacted_in = epoch
          /\ BeginsOf(cleanup_queue[Len(cleanup_queue)], u) # {}

\* The actions written for a record, in the order of its entries in the file.
WrittenActions(u) ==
    LET rec == [record_id |-> hist[u].record_id, uid |-> u, local_index |-> hist[u].index,
                local_values |-> hist[u].values, dropped_tables |-> hist[u].dropped]
        ActionOf(tok) ==
            CASE tok.t = "Begin" -> [a |-> "BeginRecord"]
              [] tok.t = "InsertIndex" -> [a |-> "InsertIndex", table |-> tok.table, index |-> tok.index]
              [] tok.t = "InsertValue" -> [a |-> "InsertValue", table |-> tok.table, index |-> tok.index]
              [] tok.t = "DropTable" -> [a |-> "DropTable", table |-> tok.table]
              [] tok.t = "End" -> [a |-> "EndRecord"]
    IN  [i \in DOMAIN to_file(rec) |-> ActionOf(to_file(rec)[i])]

\* The LogReader has returned EndRecord or an error.
ReaderDone == IsSome(reader) /\ (reader[1].ended \/ reader[1].err)

\* The record the LogReader has read, as it is in the file.
ReaderRecord ==
    LET f == files[reading[1].id]
    IN  RecordAt(f, CHOOSE i \in BeginsOf(reading[1].id, reader[1].uid) : TRUE)

\* C16: a LogReader that has read a record to its end has, when the stored
\* checksum differs from the checksum of the record's bytes, failed at EndRecord
\* with every earlier action returned if it validates, and returned EndRecord
\* without error if it does not; when the checksum matches it has returned, in
\* either mode, the sequence of actions that was written, without error.
C16_Checksum ==
    ReaderDone =>
        LET rd == reader[1]
            written == WrittenActions(rd.uid)
        IN  IF ChecksumMatches(ReaderRecord)
            THEN ~rd.err /\ rd.ended /\ rd.actions = written
            ELSE IF rd.validate
                 THEN rd.err /\ ~rd.ended /\ rd.actions = SubSeq(written, 1, Len(written) - 1)
                 ELSE ~rd.err /\ rd.ended /\ rd.actions = written

\* A validating LogReader has failed at the end of a record with a value whose
\* stored checksum does not match.
C16_Witness ==
    /\ ReaderDone /\ reader[1].validate /\ reader[1].err
    /\ ~ChecksumMatches(ReaderRecord)
    /\ Len(reader[1].actions) >= 2

\* A step of insert_index, insert_value or drop_table on the open writer.
InsertStep ==
    /\ epoch' = epoch
    /\ IsSome(writer) /\ IsSome(writer')
    /\ writer[1].uid = writer'[1].uid
    /\ writer'[1].nops = writer[1].nops + 1

C17_Isolation == InsertStep => overlays' = overlays

\* The first min(n, len) bytes of a payload.
Prefix(d, n) == SubSeq(d, 1, IF n < Len(d) THEN n ELSE Len(d))

C17_ReadYourWrites ==
    (IsSome(writer) /\ writer[1].pc = "open") =>
        LET w == writer[1]
        IN  /\ \A table \in ValueTables, index \in Slots, n \in DestLens :
                  writer_value(w, overlays, table, index, n) =
                      IF Has(w.local_values, table, index)
                      THEN Some(Prefix(w.local_values[table][index].data, n))
                      ELSE IF Has(overlays.value, table, index)
                           THEN Some(Prefix(overlays.value[table][index].data, n))
                           ELSE None
            /\ \A table \in IndexTables, index \in IndexSlots :
                  writer_with_index(w, overlays, table, index) =
                      IF Has(w.local_index, table, index)
                      THEN Some(w.local_index[table][index].chunk)
                      ELSE IF Has(overlays.index, table, index)
                           THEN Some(overlays.index[table][index].chunk)
                           ELSE None

\* C17: insert_index, insert_value and drop_table on a writer leave the shared
\* overlays unchanged, and a query through an open writer returns the writer's
\* own pending entry for a (table, slot) when it has one and otherwise what the
\* shared overlays return for that slot.
C17_WriterIsolation == []C17_ReadYourWrites /\ [][C17_Isolation]_vars

\* An open writer holds a pending value for a slot where the shared overlay
\* holds a different value of an earlier record.
C17_Witness ==
    /\ IsSome(writer) /\ writer[1].pc = "open"
    /\ \E table \in ValueTables, index \in Slots :
          /\ Has(writer[1].local_values, table, index)
          /\ Has(overlays.value, table, index)
          /\ writer[1].local_values[table][index].data # overlays.value[table][index].data
          /\ writer_value(writer[1], overlays, table, index, 2) =
                 Some(Prefix(writer[1].local_values[table][index].data, 2))

C18_Post ==
    /\ IsNone(reading')
    /\ IsSome(reading) => reading[1].id \notin DOMAIN files'
    /\ replay_queue' = << >>
    /\ \A i \in DOMAIN replay_queue : replay_queue[i].id \notin DOMAIN files'
    /\ overlays'.index = EmptyMap /\ overlays'.value = EmptyMap
    /\ reading_state' = "Idle"
    /\ dirty' = FALSE
    /\ appending' = appending /\ flushing' = flushing
    /\ log_pool' = log_pool /\ cleanup_queue' = cleanup_queue
    /\ next_record_id' = next_record_id

\* C18: a clear_replay_logs call leaves the reading slot empty and its file
\* deleted, the replay queue empty and each of its files deleted, both overlay
\* maps empty, the reading state Idle and dirty false, and does not change the
\* appending slot, the flushing slot, the pool, the cleanup queue or
\* next_record_id.
C18_ClearReplayLogs == [][clear_replay_logs => C18_Post]_vars

\* After a clear_replay_logs call (only it sets dirty to false): a replayed
\* record was dropped with its file, while a file is being appended to.
C18_Witness ==
    /\ ~dirty
    /\ IsNone(reading) /\ replay_queue = << >> /\ overlays = EmptyOverlays
    /\ IsSome(appending)
    /\ \E u \in DOMAIN hist :
          /\ hist[u].stage = "discarded" /\ hist[u].epoch < epoch
          /\ \A f \in DOMAIN files : BeginsOf(f, u) = {}

\* Every slot and queue entry, as one sequence of log ids.
AllPlaces ==
    (IF IsSome(appending) THEN <<appending[1].id>> ELSE << >>)
    \o (IF IsSome(flushing) THEN <<flushing[1].id>> ELSE << >>)
    \o (IF IsSome(reading) THEN <<reading[1].id>> ELSE << >>)
    \o log_pool \o cleanup_queue
    \o [i \in DOMAIN replay_queue |-> replay_queue[i].id]

C19_OnePlace == \A i, j \in DOMAIN AllPlaces : AllPlaces[i] = AllPlaces[j] => i = j

\* end_record takes a fresh id from next_log_id.
FreshIdStep == epoch' = epoch /\ next_log_id' = next_log_id + 1

C19_Fresh ==
    FreshIdStep =>
        /\ IsSome(appending') /\ appending'[1].id = next_log_id
        /\ next_log_id \notin PlaceIds(appending, flushing, reading, log_pool,
                                       cleanup_queue, replay_queue)

\* C19: no log id is in more than one of the pool, the appending slot, the
\* flushing slot, the reading slot, the cleanup queue and the replay queue, nor
\* twice in one of them, and an id taken from next_log_id is in none of them.
C19_OneSlotPerFile == []C19_OnePlace /\ [][C19_Fresh]_vars

\* Files are in the appending slot, the reading slot and a queue at once, after
\* end_record took a fresh id.
C19_Witness ==
    /\ IsSome(appending) /\ IsSome(reading)
    /\ Len(AllPlaces) >= 3
    /\ next_log_id > Max(SeqRange(AllPlaces))

\* The records of this process whose end_record acquired the file for appending.
Acquirers(f) == {u \in ThisRun : hist[u].acquired = Some(f)}

\* The file was written in this process.
ThisProcess(f) == Acquirers(f) # {}

\* Its generation: the number of its latest acquisition, the acquisitions being
\* numbered in the order of the records that made them.
Generation(f) == Max(Acquirers(f))

C20_Order ==
    /\ IsSome(appending) => ThisProcess(appending[1].id)
    /\ IsSome(flushing) => ThisProcess(flushing[1].id)
    /\ (IsSome(flushing) /\ IsSome(appending)) =>
           Generation(flushing[1].id) < Generation(appending[1].id)
    /\ (IsSome(reading) /\ IsSome(flushing) /\ ThisProcess(reading[1].id)) =>
           Generation(reading[1].id) < Generation(flushing[1].id)

\* A flush_one call that moves a file.
FlushStep == epoch' = epoch /\ flushing' # flushing

C20_NoOverwrite ==
    FlushStep =>
        /\ IsSome(flushing) =>
              /\ IsSome(reading') /\ reading'[1].id = flushing[1].id
              /\ cleanup_queue' = IF IsSome(reading) THEN Append(cleanup_queue, reading[1].id)
                                                      ELSE cleanup_queue
        /\ IsNone(flushing) => reading' = reading /\ cleanup_queue' = cleanup_queue
        /\ IsSome(flushing') => IsSome(appending) /\ flushing'[1].id = appending[1].id /\ IsNone(appending')
        /\ SeqRange(AllPlaces') = SeqRange(AllPlaces)

\* C20: numbering the files in the order in which end_record acquired them,
\* the flushing file is of an earlier generation than the appending file, the
\* reading file, if written in this process, of an earlier generation than the
\* flushing file, and flush_one moves the file of a slot on before it puts
\* another file into the slot.
C20_GenerationOrder == []C20_Order /\ [][C20_NoOverwrite]_vars

\* The three slots hold three files of this process.
C20_Witness ==
    /\ IsSome(appending) /\ IsSome(flushing) /\ IsSome(reading)
    /\ ThisProcess(reading[1].id)
    /\ Generation(reading[1].id) < Generation(flushing[1].id)
    /\ Generation(flushing[1].id) < Generation(appending[1].id)

\* The record ids of a file, in file order.
RECURSIVE RecordIds(_)
RecordIds(content) ==
    IF content = << >> THEN << >>
    ELSE (IF Head(content).t = "Begin" THEN <<Head(content).record_id>> ELSE << >>)
         \o RecordIds(Tail(content))

StrictlyIncreasing(seq) == \A i, j \in DOMAIN seq : i < j => seq[i] < seq[j]

\* The files on disk that were written in this process.
WrittenHere == {f \in DOMAIN files : ThisProcess(f) /\ RecordIds(files[f]) # << >>}

\* C21: the record ids in the active append file are strictly increasing in
\* file order, and of two files written in this process the one whose first
\* record id is lower was acquired for appending earlier.
C21_RecordIdOrder ==
    /\ IsSome(appending) => StrictlyIncreasing(RecordIds(files[appending[1].id]))
    /\ \A f, g \in WrittenHere :
          RecordIds(files[f])[1] < RecordIds(files[g])[1] => Generation(f) < Generation(g)

\* A flush_one call that takes the file of the flushing slot.
InstallStep == FlushStep /\ IsSome(flushing)

C22_Install ==
    InstallStep =>
        /\ reading_state = "Idle"
        /\ IsSome(reading') /\ reading'[1].id = flushing[1].id /\ reading'[1].pos = 1
        /\ reading_state' = "Reading"
        /\ IsSome(reading) =>
              /\ reading[1].id # flushing[1].id
              /\ cleanup_queue' = Append(cleanup_queue, reading[1].id)

\* With a file in the flushing slot and the reading state Reading, flush_one waits.
C22_Waits ==
    (epoch' = epoch /\ IsSome(flushing) /\ reading_state = "Reading") =>
        /\ flushing' = flushing
        /\ IsNone(reading') \/ reading'[1].id # flushing[1].id

\* C22: flush_one puts the flushing file into the reading slot only in a state
\* where the reading state is Idle, after it moved the previous reading file
\* to the cleanup queue; while the reading state is Reading and a file is in
\* the flushing slot, no flush_one call moves a file.
C22_NoInstallWhileReading == [][C22_Install /\ C22_Waits]_vars

\* flush_one has taken a second file of this process into the reading slot; the
\* file read before it is the last of the cleanup queue.
C22_Witness ==
    /\ IsSome(reading) /\ reading_state = "Reading" /\ reading[1].pos = 1
    /\ ThisProcess(reading[1].id)
    /\ cleanup_queue # << >>
    /\ ThisProcess(cleanup_queue[Len(cleanup_queue)])
    /\ Generation(cleanup_queue[Len(cleanup_queue)]) < Generation(reading[1].id)

\* C23: a flush_one call made while the reading slot holds a file and the
\* reading state is Idle moves that file to the cleanup queue, with or without
\* a file in the flushing slot.
C23_IdleFileCleaned ==
    [][(FlushStep /\ IsSome(reading) /\ reading_state = "Idle") =>
          /\ cleanup_queue' = Append(cleanup_queue, reading[1].id)
          /\ IsNone(reading') \/ reading'[1].id # reading[1].id]_vars

\* C28: whenever the reading state is Reading, the reading slot holds a file.
C28_ReadingHasFile == reading_state = "Reading" => IsSome(reading)

\* C27: end_record never finds the append slot empty when it takes the write
\* lock to serialize its record (the unwrap of line 545 never fails), whatever
\* flush_one does in between.
C27_AppendSlotOccupied == "end_record_unwrap" \notin panics

\* The lock ordering the specification states.
LockOrder == <<"flushing", "reading_state", "reading", "appending", "overlays",
               "log_pool", "cleanup_queue">>
Rank(l) == CHOOSE i \in 1..Len(LockOrder) : LockOrder[i] = l
Ordered == {LockOrder[i] : i \in 1..Len(LockOrder)}

\* The locks the thread takes, and keeps, in the step.
Acquired(t) == {l \in Locks : ~Holds(t, l) /\ \E h \in lk'.held[l] : h[1] = t}

\* C25: a thread that holds one of the seven locks and acquires another of them
\* acquires the later one in the order flushing, reading_state, reading,
\* appending, overlays, log_pool, cleanup_queue: every lock it holds precedes the
\* lock it takes.  This is for every function of the interface.
C25_LockOrder ==
    [][\A t \in Threads : \A l \in Acquired(t) \cap Ordered :
          \A h \in HeldBy(t) \cap Ordered : Rank(h) < Rank(l)]_vars

\* Thread t waits for a lock that thread u holds.
Blocks(t, u) ==
    /\ t # u
    /\ IsSome(Wants(t))
    /\ \E h \in lk.held[Wants(t)[1][1]] : h[1] = u /\ (Wants(t)[1][2] = "w" \/ h[2] = "w")

\* C26: in no interleaving of the writer, the flusher, the enactor (read_next,
\* the LogReader it returns, end_read), clean_logs, clear_replay_logs and
\* kill_logs is there a set of two or more threads each of which waits for a
\* lock held by another thread of the set.
C26_NoLockDeadlock ==
    LET B == {p \in Threads \X Threads : Blocks(p[1], p[2])}
        W == {p[1] : p \in B}
    IN  ~ \E S \in SUBSET W :
             /\ Cardinality(S) >= 2
             /\ \A t \in S : \E u \in S : <<t, u>> \in B

\* Locks are contended, in a chain: one thread waits for a lock of a second
\* thread, which waits for a lock of a third.
C26_Witness ==
    \E t, u, v \in Threads : t # v /\ Blocks(t, u) /\ Blocks(u, v)

\* C24: with the enactor calling read_next (and end_read for each record) again
\* and again, a flush_one call parked on done_reading is eventually woken and
\* returns: no Idle transition and no notification passes it by.
C24_FlusherWoken ==
    (lk.pc["flusher"] = "fo_wait") ~> (lk.pc["flusher"] = "idle" \/ lk.panics # {})


====
